---- MODULE Spec2Model ----
(***************************************************************************)
(* Extraction pipeline of constitution-search-mvp: the element classifier  *)
(* (ConstitutionScrapingService._parseConstitutionHtml), the transformer   *)
(* (_transformData, _extractTags) and the streaming chunk adapter          *)
(* (StreamingHtmlParserService).                                            *)
(*                                                                         *)
(* Text is a sequence of one-character strings, so that the regular        *)
(* expressions, trims, replaces and slices of the code are computed        *)
(* character by character.  A JavaScript value that is undefined or ''     *)
(* is the empty sequence: every use the code makes of such a value is a    *)
(* truthiness test (if (x), x || y, filter(Boolean)).                      *)
(***************************************************************************)
EXTENDS Integers, Sequences, FiniteSets, TLC

\* ------------------------------------------------------------------ text
Undefined == <<>>

\* the letters of the texts: the first 26 of each row are [A-Z] and [a-z]
UpperChars ==
  <<"A","B","C","D","E","F","G","H","I","J","K","L","M","N","O","P","Q","R","S",
    "T","U","V","W","X","Y","Z","Á","Â","Ã","Ç","É","Ê","Í","Ó","Ô","Õ","Ú">>
LowerChars ==
  <<"a","b","c","d","e","f","g","h","i","j","k","l","m","n","o","p","q","r","s",
    "t","u","v","w","x","y","z","á","â","ã","ç","é","ê","í","ó","ô","õ","ú">>

\* String.prototype.toLowerCase / toUpperCase on one character: a letter of
\* the one row becomes the letter of the other, any other character stays
CaseTable(from, to) ==
  [c \in {from[i] : i \in 1..Len(from)} |-> to[CHOOSE i \in 1..Len(from) : from[i] = c]]
LowerOf == CaseTable(UpperChars, LowerChars)
UpperOf == CaseTable(LowerChars, UpperChars)
Mapped(table, c) == IF c \in DOMAIN table THEN table[c] ELSE c
LowerChar(c) == Mapped(LowerOf, c)
UpperChar(c) == Mapped(UpperOf, c)
ToLowerCase(s) == [i \in 1..Len(s) |-> LowerChar(s[i])]
ToUpperCase(s) == [i \in 1..Len(s) |-> UpperChar(s[i])]

\* \d
DigitChars == {"0","1","2","3","4","5","6","7","8","9"}
IsDigit(c) == c \in DigitChars
\* \s of a JavaScript regular expression, and the characters trim() removes
SpaceChars == {" ", "\n", "\t"}
IsSpace(c) == c \in SpaceChars
\* [A-Z], [a-z], [a-zA-Z], [a-zA-Z0-9]
AsciiUpper == {UpperChars[i] : i \in 1..26}
AsciiLower == {LowerChars[i] : i \in 1..26}
IsLowerAscii(c) == c \in AsciiLower
IsAsciiLetter(c) == c \in AsciiUpper \/ c \in AsciiLower
IsAlnum(c) == IsAsciiLetter(c) \/ IsDigit(c)
\* [IVXLCDM] and [IVX]
RomanChars == {"I","V","X","L","C","D","M"}
IsRoman(c) == c \in RomanChars
IsRomanCI(c) == IsRoman(UpperChar(c))
IVXChars == {"I","V","X"}
IsIVXCI(c) == UpperChar(c) \in IVXChars

\* s.slice(from0, to0) with 0-based, end-exclusive indices
Slice(s, from0, to0) ==
  LET t == IF to0 > Len(s) THEN Len(s) ELSE to0
  IN IF from0 >= t THEN <<>> ELSE SubSeq(s, from0 + 1, t)
\* s.substring(0, n)
Prefix(s, n) == Slice(s, 0, n)
\* everything from the 1-based position i on
From(s, i) == IF i > Len(s) THEN <<>> ELSE SubSeq(s, i, Len(s))

\* the position after the longest run of characters satisfying P that starts
\* at the 1-based position i (a greedy  x*  of a regular expression)
RunEnd(s, i, P(_)) ==
  CHOOSE j \in i..(Len(s) + 1) :
    /\ \A k \in i..(j - 1) : P(s[k])
    /\ (j = Len(s) + 1 \/ ~P(s[j]))

\* p occurs in s at the 1-based position i
MatchAt(s, p, i) ==
  /\ i >= 1
  /\ i + Len(p) - 1 <= Len(s)
  /\ \A k \in 1..Len(p) : s[i + k - 1] = p[k]
\* the same under the i flag: both sides are compared in capitals
MatchAtMapped(table, s, p, i) ==
  /\ i >= 1
  /\ i + Len(p) - 1 <= Len(s)
  /\ \A k \in 1..Len(p) : Mapped(table, s[i + k - 1]) = Mapped(table, p[k])
MatchAtCI(s, p, i) == MatchAtMapped(UpperOf, s, p, i)
StartsWith(s, p) == MatchAt(s, p, 1)
StartsWithCI(s, p) == MatchAtCI(s, p, 1)
\* s.indexOf(p), 1-based; 0 when p does not occur
IndexOf(s, p) ==
  IF \E i \in 1..(Len(s) - Len(p) + 1) : MatchAt(s, p, i)
  THEN CHOOSE i \in 1..(Len(s) - Len(p) + 1) :
         MatchAt(s, p, i) /\ \A j \in 1..(i - 1) : ~MatchAt(s, p, j)
  ELSE 0
Contains(s, p) == \E i \in 1..(Len(s) - Len(p) + 1) : MatchAt(s, p, i)
ContainsCI(s, p) == \E i \in 1..(Len(s) - Len(p) + 1) : MatchAtCI(s, p, i)
\* s.lastIndexOf(c) for one character, 0-based; -1 when c does not occur
LastIndexOf(s, c) ==
  IF \E i \in 1..Len(s) : s[i] = c
  THEN (CHOOSE i \in 1..Len(s) : s[i] = c /\ \A j \in (i + 1)..Len(s) : s[j] # c) - 1
  ELSE -1

\* s.trim()
TrimStart(s) == From(s, RunEnd(s, 1, IsSpace))
TrimEnd(s) ==
  IF \A i \in 1..Len(s) : IsSpace(s[i]) THEN <<>>
  ELSE SubSeq(s, 1, CHOOSE j \in 1..Len(s) :
                      ~IsSpace(s[j]) /\ \A k \in (j + 1)..Len(s) : IsSpace(s[k]))
Trim(s) == TrimEnd(TrimStart(s))

\* s.replace(/\s\s+/g, ' '): every run of two or more white-space characters
\* becomes one blank; a single white-space character is kept as it is
IsSpaceRunAt(s, i) == IsSpace(s[i]) /\ IsSpace(s[i + 1])
RECURSIVE CollapseSpaces(_)
CollapseSpaces(s) ==
  IF ~\E i \in 1..(Len(s) - 1) : IsSpaceRunAt(s, i) THEN s
  ELSE LET i == CHOOSE i \in 1..(Len(s) - 1) :
                  IsSpaceRunAt(s, i) /\ \A j \in 1..(i - 1) : ~IsSpaceRunAt(s, j)
       IN SubSeq(s, 1, i - 1) \o <<" ">> \o CollapseSpaces(From(s, RunEnd(s, i, IsSpace)))

\* s.replace(p, '') with a string pattern: the first occurrence only; the
\* empty pattern matches at position 0 and removes nothing
RemoveFirst(s, p) ==
  LET i == IndexOf(s, p)
  IN IF Len(p) = 0 \/ i = 0 THEN s
     ELSE SubSeq(s, 1, i - 1) \o From(s, i + Len(p))

\* s.replace(/[^a-zA-Z0-9]/g, '-')
Sanitize(s) == [i \in 1..Len(s) |-> IF IsAlnum(s[i]) THEN s[i] ELSE "-"]

\* parts.join(sep)
RECURSIVE Join(_, _)
Join(parts, sep) ==
  IF parts = <<>> THEN <<>>
  ELSE IF Len(parts) = 1 THEN parts[1]
  ELSE parts[1] \o sep \o Join(Tail(parts), sep)

\* parts.filter(Boolean)
RECURSIVE FilterTruthy(_)
FilterTruthy(parts) ==
  IF parts = <<>> THEN <<>>
  ELSE (IF parts[1] # <<>> THEN <<parts[1]>> ELSE <<>>) \o FilterTruthy(Tail(parts))

\* parts.filter((p) => p && p.trim() !== '')
RECURSIVE FilterNonBlank(_)
FilterNonBlank(parts) ==
  IF parts = <<>> THEN <<>>
  ELSE (IF parts[1] # <<>> /\ Trim(parts[1]) # <<>> THEN <<parts[1]>> ELSE <<>>)
       \o FilterNonBlank(Tail(parts))

\* the decimal digits of a number, as string concatenation writes it
Digits == <<"0","1","2","3","4","5","6","7","8","9">>
RECURSIVE NumberToString(_)
NumberToString(n) ==
  IF n < 10 THEN <<Digits[n + 1]>>
  ELSE NumberToString(n \div 10) \o <<Digits[(n % 10) + 1]>>

\* text.split(' ').length
SplitCount(s) == Cardinality({i \in 1..Len(s) : s[i] = " "}) + 1

\* ------------------------------------------------------------------ literals
\* 'Art.'
ArtDot == <<"A","r","t",".">>
\* '§'
ParagraphSign == <<"§">>
\* 'Parágrafo único.'
ParagrafoUnico == <<"P","a","r","á","g","r","a","f","o"," ","ú","n","i","c","o",".">>
\* 'inciso '
IncisoSpaceLower == <<"i","n","c","i","s","o"," ">>
\* 'Inciso'
IncisoWord == <<"I","n","c","i","s","o">>
\* 'EMENDA CONSTITUCIONAL Nº '
EmendaPrefix ==
  <<"E","M","E","N","D","A"," ","C","O","N","S","T","I","T","U","C","I","O","N","A","L"," ",
    "N","º"," ">>
\* 'ATO DAS DISPOSIÇÕES CONSTITUCIONAIS TRANSITÓRIAS'
AdctPrefix ==
  <<"A","T","O"," ","D","A","S"," ","D","I","S","P","O","S","I","Ç","Õ","E","S"," ","C","O",
    "N","S","T","I","T","U","C","I","O","N","A","I","S"," ","T","R","A","N","S","I","T","Ó",
    "R","I","A","S">>
\* 'PREÂMBULO'
PreambuloPrefix == <<"P","R","E","Â","M","B","U","L","O">>
\* 'TÍTULO'
TituloPrefix == <<"T","Í","T","U","L","O">>
\* 'CAPÍTULO'
CapituloPrefix == <<"C","A","P","Í","T","U","L","O">>
\* 'Seção '
SecaoPrefix == <<"S","e","ç","ã","o"," ">>
\* 'Subseção '
SubsecaoPrefix == <<"S","u","b","s","e","ç","ã","o"," ">>
\* 'SEÇÃO'
SecaoUpper == <<"S","E","Ç","Ã","O">>
\* 'SUBSEÇÃO'
SubsecaoUpper == <<"S","U","B","S","E","Ç","Ã","O">>
\* 'PRESIDÊNCIA DA REPÚBLICA'
Presidencia ==
  <<"P","R","E","S","I","D","Ê","N","C","I","A"," ","D","A"," ","R","E","P","Ú","B","L","I",
    "C","A">>
\* 'CASA CIVIL'
CasaCivil == <<"C","A","S","A"," ","C","I","V","I","L">>
\* 'Subchefia para Assuntos Jurídicos'
Subchefia ==
  <<"S","u","b","c","h","e","f","i","a"," ","p","a","r","a"," ","A","s","s","u","n","t","o",
    "s"," ","J","u","r","í","d","i","c","o","s">>
\* 'Brasília'
Brasilia == <<"B","r","a","s","í","l","i","a">>
\* 'Brasília,'
BrasiliaComma == <<"B","r","a","s","í","l","i","a",",">>
\* 'de'
DeWord == <<"d","e">>
\* 'Nós, representantes do povo brasileiro'
NosRepresentantes ==
  <<"N","ó","s",","," ","r","e","p","r","e","s","e","n","t","a","n","t","e","s"," ","d","o",
    " ","p","o","v","o"," ","b","r","a","s","i","l","e","i","r","o">>
\* 'A ASSEMBLEIA NACIONAL CONSTITUINTE'
AssembleiaConstituinte ==
  <<"A"," ","A","S","S","E","M","B","L","E","I","A"," ","N","A","C","I","O","N","A","L"," ",
    "C","O","N","S","T","I","T","U","I","N","T","E">>
\* 'Desconhecido'
Desconhecido == <<"D","e","s","c","o","n","h","e","c","i","d","o">>
\* 'Artigo ADCT'
ArtigoAdct == <<"A","r","t","i","g","o"," ","A","D","C","T">>
\* 'Inciso '
IncisoLabel == <<"I","n","c","i","s","o"," ">>
\* 'Alínea '
AlineaLabel == <<"A","l","í","n","e","a"," ">>
\* ', '
CommaSpace == <<","," ">>
\* ' | '
BarSep == <<" ","|"," ">>
\* 'const-'
ConstDash == <<"c","o","n","s","t","-">>
\* 'Art. '
ArtSpace == <<"A","r","t","."," ">>
\* 'direitos e garantias fundamentais'
KwDireitos ==
  <<"d","i","r","e","i","t","o","s"," ","e"," ","g","a","r","a","n","t","i","a","s"," ","f",
    "u","n","d","a","m","e","n","t","a","i","s">>
\* 'Direitos Fundamentais'
TagDireitos ==
  <<"D","i","r","e","i","t","o","s"," ","F","u","n","d","a","m","e","n","t","a","i","s">>
\* 'habeas corpus'
KwHabeas == <<"h","a","b","e","a","s"," ","c","o","r","p","u","s">>
\* 'Habeas Corpus'
TagHabeas == <<"H","a","b","e","a","s"," ","C","o","r","p","u","s">>
\* 'poder legislativo'
KwLegislativo == <<"p","o","d","e","r"," ","l","e","g","i","s","l","a","t","i","v","o">>
\* 'Poder Legislativo'
TagLegislativo == <<"P","o","d","e","r"," ","L","e","g","i","s","l","a","t","i","v","o">>
\* 'poder executivo'
KwExecutivo == <<"p","o","d","e","r"," ","e","x","e","c","u","t","i","v","o">>
\* 'Poder Executivo'
TagExecutivo == <<"P","o","d","e","r"," ","E","x","e","c","u","t","i","v","o">>
\* 'poder judiciário'
KwJudiciario == <<"p","o","d","e","r"," ","j","u","d","i","c","i","á","r","i","o">>
\* 'Poder Judiciário'
TagJudiciario == <<"P","o","d","e","r"," ","J","u","d","i","c","i","á","r","i","o">>
\* 'ordem econômica e financeira'
KwOrdem ==
  <<"o","r","d","e","m"," ","e","c","o","n","ô","m","i","c","a"," ","e"," ","f","i","n","a",
    "n","c","e","i","r","a">>
\* 'Ordem Econômica'
TagOrdem == <<"O","r","d","e","m"," ","E","c","o","n","ô","m","i","c","a">>
\* 'meio ambiente'
KwAmbiente == <<"m","e","i","o"," ","a","m","b","i","e","n","t","e">>
\* 'Meio Ambiente'
TagAmbiente == <<"M","e","i","o"," ","A","m","b","i","e","n","t","e">>

\* ------------------------------------------------------------------ patterns
\* an optional character: the position after s[i] when s[i] is c, else i
SkipChar(s, i, c) == IF i <= Len(s) /\ s[i] = c THEN i + 1 ELSE i
\* the length of a match of  \d+º?\.?  whose digits start at position a and
\* end before position b; 0 when there is no digit
NumberTokenEnd(s, a, b) == IF b = a THEN 0 ELSE SkipChar(s, SkipChar(s, b, "º"), ".") - 1
NumberTokenLen(s, a) == NumberTokenEnd(s, a, RunEnd(s, a, IsDigit))
\* the length of the match of /^Art\.\s*\d+º?\.?/i at the start of s; 0: no match
ArtTokenLen(s) ==
  IF ~StartsWithCI(s, ArtDot) THEN 0 ELSE NumberTokenLen(s, RunEnd(s, 5, IsSpace))
\* text.match(/^Art\.\s*\d+º?\.?/i)?.[0]
ArtToken(s) == SubSeq(s, 1, ArtTokenLen(s))
\* text.replace(/^Art\.\s*\d+º?\.?\s*/i, '').trim()
StripArtToken(s) == Trim(From(s, RunEnd(s, ArtTokenLen(s) + 1, IsSpace)))

\* the length of the match of /^§\s*\d+º?\.?/i at the start of s; 0: no match
SignTokenLen(s) ==
  IF ~StartsWith(s, ParagraphSign) THEN 0 ELSE NumberTokenLen(s, RunEnd(s, 2, IsSpace))
\* text.match(/^§\s*\d+º?\.?|^Parágrafo único\./i)?.[0]
ParagraphTokenOf(s, signTokenLen) ==
  IF signTokenLen > 0 THEN SubSeq(s, 1, signTokenLen)
  ELSE IF StartsWithCI(s, ParagrafoUnico) THEN SubSeq(s, 1, Len(ParagrafoUnico))
  ELSE Undefined
ParagraphToken(s) == ParagraphTokenOf(s, SignTokenLen(s))

\* /^([IVXLCDM]+)\s*-\s*/.test(text): the numeral must be in capitals
DashAfter(s, a, b) == a > 1 /\ b <= Len(s) /\ s[b] = "-"
NumeralDash(s, a) == DashAfter(s, a, RunEnd(s, a, IsSpace))
IsIncisoDash(s) == NumeralDash(s, RunEnd(s, 1, IsRoman))
\* text.match(/^([IVXLCDM]+)\s*-/i)?.[1]
NumeralBefore(s, a) == IF NumeralDash(s, a) THEN SubSeq(s, 1, a - 1) ELSE Undefined
IncisoDashNumber(s) == NumeralBefore(s, RunEnd(s, 1, IsRomanCI))
\* text.match(/^Inciso\s+([IVXLCDM]+)/i)?.[1]
NumeralBetween(s, a, b) ==
  IF a > Len(IncisoWord) + 1 /\ b > a THEN SubSeq(s, a, b - 1) ELSE Undefined
NumeralFrom(s, a) == NumeralBetween(s, a, RunEnd(s, a, IsRomanCI))
IncisoWordNumber(s) ==
  IF ~StartsWithCI(s, IncisoWord) THEN Undefined
  ELSE NumeralFrom(s, RunEnd(s, Len(IncisoWord) + 1, IsSpace))

\* /^[a-z]\)\s+/.test(text)
IsAlineaStrict(s) ==
  Len(s) >= 3 /\ IsLowerAscii(s[1]) /\ s[2] = ")" /\ IsSpace(s[3])
\* text.match(/^([a-z])\)/i)?.[1]
AlineaLetter(s) ==
  IF Len(s) >= 2 /\ IsAsciiLetter(s[1]) /\ s[2] = ")" THEN <<s[1]>> ELSE Undefined

\* /^EMENDA CONSTITUCIONAL Nº \d+/i.test(text)
IsEmenda(s) ==
  /\ StartsWithCI(s, EmendaPrefix)
  /\ Len(s) > Len(EmendaPrefix)
  /\ IsDigit(s[Len(EmendaPrefix) + 1])

\* /^Brasília,\s*\d+\s*de\s*[a-zA-Z]+\s*de\s*\d{4}\./i.test(text): the month
\* [a-zA-Z]+ may give letters back, every other part is forced
IsLocalData(s) ==
  /\ StartsWithCI(s, BrasiliaComma)
  /\ LET a == RunEnd(s, Len(BrasiliaComma) + 1, IsSpace)
         b == RunEnd(s, a, IsDigit)
         c == RunEnd(s, b, IsSpace)
         e == RunEnd(s, c + 2, IsSpace)
         f == RunEnd(s, e, IsAsciiLetter)
     IN /\ b > a
        /\ MatchAtCI(s, DeWord, c)
        /\ \E g \in (e + 1)..f :
             LET h == RunEnd(s, g, IsSpace)
                 k == RunEnd(s, h + 2, IsSpace)
             IN /\ MatchAtCI(s, DeWord, h)
                /\ k + 4 <= Len(s)
                /\ \A d \in k..(k + 3) : IsDigit(s[d])
                /\ s[k + 4] = "."

\* /PRESIDÊNCIA DA REPÚBLICA|CASA CIVIL|Subchefia para Assuntos Jurídicos/i.test(text)
IsBoilerplate(s) ==
  ContainsCI(s, Presidencia) \/ ContainsCI(s, CasaCivil) \/ ContainsCI(s, Subchefia)

\* /^Nós, representantes do povo brasileiro/i.test(text) ||
\* /A ASSEMBLEIA NACIONAL CONSTITUINTE/i.test(text)
IsPromulgado(s) ==
  StartsWithCI(s, NosRepresentantes) \/ ContainsCI(s, AssembleiaConstituinte)

\* ------------------------------------------------------------------ classifier
\* text.length < 3 rejects a block
MinTextLength == 3
\* element.text().length < 100 in the navigation-link heuristic
NavTextLimit == 100
\* text.length > 10 admits a block to the continuation fallback
FallbackMinLength == 10
\* a signature has 2 to 5 words
SignatureMinWords == 2
SignatureMaxWords == 5

\* 'planalto.gov.br'
PlanaltoHost == <<"p","l","a","n","a","l","t","o",".","g","o","v",".","b","r">>

\* One <p> element of the page as $('body p') yields it: its text content and
\* what the selectors of the callback look at.  The <p> elements are siblings.
\*   align    the align attribute ("center" or "")
\*   bold     the element has a <b> descendant
\*   anchor   the element has an <a> descendant, href is its target
\*   inTable  the element has a <table> ancestor
\*   brasao   the element has an <img src*="brasao.png"> descendant
Block(text, align, bold) ==
  [text |-> text, align |-> align, bold |-> bold, anchor |-> FALSE, href |-> <<>>,
   inTable |-> FALSE, brasao |-> FALSE]

\* RawConstitutionDataItem['hierarchicalContext']
Context(title, chapter, section, subSection, articleNumber) ==
  [title |-> title, chapter |-> chapter, section |-> section,
   subSection |-> subSection, articleNumber |-> articleNumber]
EmptyContext == Context(Undefined, Undefined, Undefined, Undefined, Undefined)

\* element.text().trim().replace(/\s\s+/g, ' ')
NormalizedText(b) == CollapseSpaces(Trim(b.text))

\* HasHint with the rendering condition dropped from every rule
HintNotRequired(b) == TRUE

\* element.attr('align') === 'center' || element.find('b').length > 0
HasHint(b) == b.align = "center" \/ b.bold

\* IsRejectedText with the early returns removed
RejectsNothing(b, text) == FALSE

\* the three early returns of the callback
IsRejectedText(b, text) ==
  \/ text = <<>>
  \/ Len(text) < MinTextLength
  \/ IsBoilerplate(text)
  \/ (b.inTable /\ b.anchor /\ Contains(b.href, PlanaltoHost) /\ Len(b.text) < NavTextLimit)
  \/ b.brasao
IsRejected(b) == IsRejectedText(b, NormalizedText(b))

\* $(el).nextAll('p:contains("Brasília")').length > 0
HasLaterBrasilia(blocks, i) ==
  \E j \in (i + 1)..Len(blocks) : Contains(blocks[j].text, Brasilia)

\* the if / else-if chain of the callback: the element type of the first rule
\* that matches, "" when none does
RuleFor(blocks, i, b, text) ==
     IF IsEmenda(text) /\ HasHint(b) THEN "EMENDA CONSTITUCIONAL"
     ELSE IF StartsWithCI(text, AdctPrefix) /\ HasHint(b)
       THEN "ATO DAS DISPOSIÇÕES CONSTITUCIONAIS TRANSITÓRIAS"
     ELSE IF StartsWithCI(text, PreambuloPrefix) /\ HasHint(b) THEN "PREÂMBULO"
     ELSE IF StartsWith(text, TituloPrefix) /\ HasHint(b) THEN "TÍTULO"
     ELSE IF StartsWith(text, CapituloPrefix) /\ HasHint(b) THEN "CAPÍTULO"
     ELSE IF StartsWith(text, SecaoPrefix) /\ HasHint(b) THEN "SEÇÃO"
     ELSE IF StartsWith(text, SubsecaoPrefix) /\ HasHint(b) THEN "SUBSEÇÃO"
     ELSE IF ArtTokenLen(text) > 0 THEN "Artigo"
     ELSE IF SignTokenLen(text) > 0 \/ StartsWith(text, ParagrafoUnico) THEN "Parágrafo"
     ELSE IF IsIncisoDash(text) \/ StartsWith(ToLowerCase(text), IncisoSpaceLower)
       THEN "Inciso"
     ELSE IF IsAlineaStrict(text) THEN "Alínea"
     ELSE IF /\ b.align = "center"
             /\ text = ToUpperCase(text)
             /\ SplitCount(text) >= SignatureMinWords
             /\ SplitCount(text) <= SignatureMaxWords
             /\ HasLaterBrasilia(blocks, i)
       THEN "ASSINATURA"
     ELSE IF IsLocalData(text) /\ b.align = "center" THEN "LOCAL_DATA"
     ELSE IF IsPromulgado(text) THEN "TEXTO_CONSTITUCIONAL_PROMULGADO"
     ELSE ""
MatchedRule(blocks, i) == RuleFor(blocks, i, blocks[i], NormalizedText(blocks[i]))

\* ContextAfterRule with the SUBSEÇÃO branch forgetting to clear the article number
ContextAfterRuleKeepArticle(ctx, rule, text) ==
  IF rule \in {"EMENDA CONSTITUCIONAL", "ATO DAS DISPOSIÇÕES CONSTITUCIONAIS TRANSITÓRIAS",
               "PREÂMBULO", "TÍTULO"}
    THEN Context(text, Undefined, Undefined, Undefined, Undefined)
  ELSE IF rule = "CAPÍTULO"
    THEN Context(ctx.title, text, Undefined, Undefined, Undefined)
  ELSE IF rule = "SEÇÃO"
    THEN Context(ctx.title, ctx.chapter, text, Undefined, Undefined)
  ELSE IF rule = "SUBSEÇÃO"
    THEN Context(ctx.title, ctx.chapter, ctx.section, text, ctx.articleNumber)
  ELSE IF rule = "Artigo"
    THEN Context(ctx.title, ctx.chapter, ctx.section, ctx.subSection, ArtToken(text))
  ELSE ctx

\* ContextAfterRule with the Parágrafo branch closing the active article
ContextAfterRuleParagraphClears(ctx, rule, text) ==
  IF rule = "Parágrafo"
    THEN Context(ctx.title, ctx.chapter, ctx.section, ctx.subSection, Undefined)
  ELSE IF rule = "SUBSEÇÃO"
    THEN Context(ctx.title, ctx.chapter, ctx.section, text, Undefined)
  ELSE ContextAfterRuleKeepArticle(ctx, rule, text)

\* ContextAfterRule with the three declarations assigning the title and
\* keeping the other fields
ContextAfterRuleDeclarationKeeps(ctx, rule, text) ==
  IF rule \in {"EMENDA CONSTITUCIONAL", "ATO DAS DISPOSIÇÕES CONSTITUCIONAIS TRANSITÓRIAS",
               "PREÂMBULO"}
    THEN Context(text, ctx.chapter, ctx.section, ctx.subSection, ctx.articleNumber)
  ELSE IF rule = "SUBSEÇÃO"
    THEN Context(ctx.title, ctx.chapter, ctx.section, text, Undefined)
  ELSE ContextAfterRuleKeepArticle(ctx, rule, text)

\* the assignments to currentContext in the branch of the matched rule
ContextAfterRule(ctx, rule, text) ==
  IF rule \in {"EMENDA CONSTITUCIONAL", "ATO DAS DISPOSIÇÕES CONSTITUCIONAIS TRANSITÓRIAS",
               "PREÂMBULO"}
    THEN Context(text, Undefined, Undefined, Undefined, Undefined)
  ELSE IF rule = "TÍTULO"
    THEN Context(text, Undefined, Undefined, Undefined, Undefined)
  ELSE IF rule = "CAPÍTULO"
    THEN Context(ctx.title, text, Undefined, Undefined, Undefined)
  ELSE IF rule = "SEÇÃO"
    THEN Context(ctx.title, ctx.chapter, text, Undefined, Undefined)
  ELSE IF rule = "SUBSEÇÃO"
    THEN Context(ctx.title, ctx.chapter, ctx.section, text, Undefined)
  ELSE IF rule = "Artigo"
    THEN Context(ctx.title, ctx.chapter, ctx.section, ctx.subSection, ArtToken(text))
  ELSE ctx

\* the text after the branch of the matched rule: an article loses its token
\* and, left empty, takes the text of the next <p> sibling
ArticleText(blocks, i, stripped) ==
  IF stripped = <<>> /\ i < Len(blocks) THEN NormalizedText(blocks[i + 1]) ELSE stripped
TextAfterRule(blocks, i, rule, text) ==
  IF rule # "Artigo" THEN text ELSE ArticleText(blocks, i, StripArtToken(text))

\* the i-th <p> is accepted, matched as an article, empty once its token is
\* stripped, and has a <p> after it: its text is read from that <p>
UsesLookahead(blocks, i) ==
  /\ ~IsRejected(blocks[i])
  /\ MatchedRule(blocks, i) = "Artigo"
  /\ StripArtToken(NormalizedText(blocks[i])) = <<>>
  /\ i < Len(blocks)

\* the continuation fallback: the type given to a block no rule matched
FallbackType(ctx, text) ==
  IF Len(text) <= FallbackMinLength THEN ""
  ELSE IF ctx.articleNumber # Undefined THEN "Artigo"
  ELSE IF ctx.subSection # Undefined THEN "SUBSEÇÃO"
  ELSE IF ctx.section # Undefined THEN "SEÇÃO"
  ELSE IF ctx.chapter # Undefined THEN "CAPÍTULO"
  ELSE IF ctx.title # Undefined THEN "TÍTULO"
  ELSE ""

\* attributes['href'] = element.find('a').attr('href') || ''
Attributes(b) == IF b.anchor THEN << <<"href", b.href>> >> ELSE <<>>

\* PushItem with the push made whether or not a type was determined
PushItemWithoutType(b, lineNumber, text, after, elementType) ==
  [context |-> after,
   items |-> IF text # <<>>
             THEN << [elementType |-> elementType,
                      text |-> text,
                      hierarchicalContext |-> after,
                      attributes |-> Attributes(b),
                      lineNumber |-> lineNumber] >>
             ELSE <<>>]

\* One call of the callback of $('body p').each for the i-th <p>, the counter
\* already incremented to lineNumber: the context after the block and the
\* items pushed (none or one).
PushItem(b, lineNumber, text, after, elementType) ==
  [context |-> after,
   items |-> IF elementType # "" /\ text # <<>>
             THEN << [elementType |-> elementType,
                      text |-> text,
                      hierarchicalContext |-> after,
                      attributes |-> Attributes(b),
                      lineNumber |-> lineNumber] >>
             ELSE <<>>]
ClassifyFallback(b, lineNumber, rule, text, after) ==
  PushItem(b, lineNumber, text, after, IF rule # "" THEN rule ELSE FallbackType(after, text))
ClassifyRule(ctx, blocks, i, lineNumber, text, rule) ==
  ClassifyFallback(blocks[i], lineNumber, rule, TextAfterRule(blocks, i, rule, text),
                   ContextAfterRule(ctx, rule, text))
ClassifyText(ctx, blocks, i, lineNumber, text) ==
  IF IsRejectedText(blocks[i], text) THEN [context |-> ctx, items |-> <<>>]
  ELSE ClassifyRule(ctx, blocks, i, lineNumber, text, RuleFor(blocks, i, blocks[i], text))
ClassifyBlock(ctx, blocks, i, lineNumber) ==
  ClassifyText(ctx, blocks, i, lineNumber, NormalizedText(blocks[i]))

\* _parseConstitutionHtml(htmlContent) as a whole: the items it returns for
\* the <p> elements of the page
RECURSIVE ParseFrom(_, _, _, _)
ParseNext(blocks, i, acc, r) == ParseFrom(blocks, i + 1, r.context, acc \o r.items)
ParseFrom(blocks, i, ctx, acc) ==
  IF i > Len(blocks) THEN acc
  ELSE ParseNext(blocks, i, acc, ClassifyBlock(ctx, blocks, i, i))
ParseConstitutionHtml(blocks) == ParseFrom(blocks, 1, EmptyContext, <<>>)

\* ------------------------------------------------------------------ transformer
\* `const-${idSuffix.toLowerCase()}`.slice(0, 512)
MaxIdLength == 512
\* context.title.substring(0, 50), context.chapter.substring(0, 50)
TagLabelLength == 50

\* a || b
OrElse(a, b) == IF a # Undefined THEN a ELSE b

BoundaryTypes == {"TÍTULO", "CAPÍTULO", "SEÇÃO", "SUBSEÇÃO"}
TopLevelTypes ==
  {"PREÂMBULO", "TEXTO_CONSTITUCIONAL_PROMULGADO", "EMENDA CONSTITUCIONAL",
   "ATO DAS DISPOSIÇÕES CONSTITUCIONAIS TRANSITÓRIAS"}
ContentTypes == {"Artigo", "Parágrafo", "Inciso", "Alínea"}
TerminalTypes == {"ASSINATURA", "LOCAL_DATA"}
\* RawConstitutionDataItem['elementType']
ElementTypes == BoundaryTypes \cup ContentTypes \cup TopLevelTypes \cup TerminalTypes

\* IsTransformed with the final else branch logging without continue
IsTransformedNoContinue(item) == TRUE

\* the branches of the loop body that end in the push of a document; the
\* final else branch (continue) is the rest
IsTransformed(item) ==
  item.elementType \in BoundaryTypes \cup ContentTypes \cup TopLevelTypes

\* an ADCT item whose own text starts with an article token
IsAdctArticle(item) ==
  /\ item.elementType = "ATO DAS DISPOSIÇÕES CONSTITUCIONAIS TRANSITÓRIAS"
  /\ ArtTokenLen(item.text) > 0

\* itemNumber after the branch of the item's type
ItemNumber(item) ==
  LET t == item.elementType
  IN IF t = "Artigo"
       THEN OrElse(item.hierarchicalContext.articleNumber, ArtToken(item.text))
     ELSE IF t = "Parágrafo" THEN ParagraphToken(item.text)
     ELSE IF t = "Inciso"
       THEN OrElse(IncisoDashNumber(item.text), IncisoWordNumber(item.text))
     ELSE IF t = "Alínea" THEN AlineaLetter(item.text)
     ELSE IF IsAdctArticle(item) THEN ArtToken(item.text)
     ELSE Undefined

\* typeForIndex after the branch of the item's type
TypeForIndex(item) == IF IsAdctArticle(item) THEN "ADCTArtigo" ELSE item.elementType

\* currentFullReferenceParts after the branch of the item's type, n being
\* the itemNumber of that branch
PartsAfter(parts, item, n) ==
  LET t == item.elementType
      hc == item.hierarchicalContext
  IN IF t = "TÍTULO" THEN <<item.text>>
     ELSE IF t = "CAPÍTULO" THEN <<OrElse(hc.title, Desconhecido), item.text>>
     ELSE IF t = "SEÇÃO"
       THEN <<OrElse(hc.title, Desconhecido), OrElse(hc.chapter, Desconhecido), item.text>>
     ELSE IF t = "SUBSEÇÃO"
       THEN <<OrElse(hc.title, Desconhecido), OrElse(hc.chapter, Desconhecido),
              OrElse(hc.section, Desconhecido), item.text>>
     ELSE IF t = "Artigo"
       THEN IF n # Undefined
            THEN FilterTruthy(<<hc.title, hc.chapter, hc.section, hc.subSection, n>>)
            ELSE parts
     ELSE IF t = "Parágrafo" THEN IF n # Undefined THEN Append(parts, n) ELSE parts
     ELSE IF t = "Inciso"
       THEN IF n # Undefined THEN Append(parts, IncisoLabel \o n) ELSE parts
     ELSE IF t = "Alínea"
       THEN IF n # Undefined THEN Append(parts, AlineaLabel \o n) ELSE parts
     ELSE IF t \in TopLevelTypes
       THEN IF IsAdctArticle(item) THEN <<item.text, OrElse(n, ArtigoAdct)>>
            ELSE <<item.text>>
     ELSE parts

\* lastArticleNumberForContext after the branch of the item's type
LastArticleAfter(last, item, n) ==
  LET t == item.elementType
  IN IF t \in BoundaryTypes \cup TopLevelTypes THEN Undefined
     ELSE IF t = "Artigo" /\ n # Undefined THEN n
     ELSE last

\* tags.add(t) on the insertion-ordered Set
AddTag(tags, t) == IF \E i \in 1..Len(tags) : tags[i] = t THEN tags ELSE Append(tags, t)
AddTagIf(tags, cond, t) == IF cond THEN AddTag(tags, t) ELSE tags

\* _extractTags(text, context)
ExtractTags(text, ctx) ==
  LET t1 == AddTagIf(<<>>, ctx.title # Undefined, Prefix(ctx.title, TagLabelLength))
      t2 == AddTagIf(t1, ctx.chapter # Undefined, Prefix(ctx.chapter, TagLabelLength))
      t3 == AddTagIf(t2, ContainsCI(text, KwDireitos), TagDireitos)
      t4 == AddTagIf(t3, ContainsCI(text, KwHabeas), TagHabeas)
      t5 == AddTagIf(t4, ContainsCI(text, KwLegislativo), TagLegislativo)
      t6 == AddTagIf(t5, ContainsCI(text, KwExecutivo), TagExecutivo)
      t7 == AddTagIf(t6, ContainsCI(text, KwJudiciario), TagJudiciario)
      t8 == AddTagIf(t7, ContainsCI(text, KwOrdem), TagOrdem)
  IN AddTagIf(t8, ContainsCI(text, KwAmbiente), TagAmbiente)

\* rawItems.find((r) => r.elementType === 'Artigo' &&
\*   r.hierarchicalContext.articleNumber === articleNumber)?.text || ''
FindArticleText(rawItems, articleNumber) ==
  LET hit(i) == /\ rawItems[i].elementType = "Artigo"
                /\ rawItems[i].hierarchicalContext.articleNumber = articleNumber
  IN IF \E i \in 1..Len(rawItems) : hit(i)
     THEN rawItems[CHOOSE i \in 1..Len(rawItems) : hit(i) /\ \A j \in 1..(i - 1) : ~hit(j)].text
     ELSE <<>>

\* fullReference, from the parts after the item's branch
FullReference(parts) == Join(FilterNonBlank(parts), CommaSpace)

\* `const-${idSuffix.toLowerCase()}`.slice(0, 512) with
\* idSuffix = fullReference.replace(/[^a-zA-Z0-9]/g, '-') + '-' + item.lineNumber
DocumentId(fullReference, lineNumber) ==
  Slice(ConstDash \o ToLowerCase(Sanitize(fullReference) \o <<"-">> \o NumberToString(lineNumber)),
        0, MaxIdLength)

\* the hierarchicalTextContext field
HierarchicalTextContext(item, rawItems) ==
  LET hc == item.hierarchicalContext
      owner == IF item.elementType # "Artigo" /\ hc.articleNumber # Undefined
               THEN FindArticleText(rawItems, hc.articleNumber)
               ELSE <<>>
  IN Join(FilterTruthy(<<hc.title, hc.chapter, hc.section, hc.subSection, owner>>), BarSep)
     \o BarSep \o item.text

\* the ConstitutionIndexSchema document pushed for item; fullReference, last
\* and n are the fullReference, lastArticleNumberForContext and itemNumber
\* after its branch
BuildDocument(fullReference, last, item, n, rawItems, now) ==
  LET hc == item.hierarchicalContext
  IN [id |-> DocumentId(fullReference, item.lineNumber),
      type |-> TypeForIndex(item),
      number |-> Trim(n),
      fullReference |-> fullReference,
      text |-> Trim(RemoveFirst(item.text, n)),
      hierarchicalTextContext |-> HierarchicalTextContext(item, rawItems),
      parentTitle |-> hc.title,
      parentChapter |-> hc.chapter,
      parentSection |-> hc.section,
      parentSubSection |-> hc.subSection,
      parentArticleNumber |->
        IF item.elementType # "Artigo" THEN OrElse(hc.articleNumber, last) ELSE Undefined,
      lastIndexedAt |-> now,
      tags |-> ExtractTags(item.text, hc)]

\* ------------------------------------------------------------------ pages
\* 'TÍTULO I'
TextTitulo1 == <<"T","Í","T","U","L","O"," ","I">>
\* 'TÍTULO II'
TextTitulo2 == <<"T","Í","T","U","L","O"," ","I","I">>
\* 'CAPÍTULO I'
TextCapitulo1 == <<"C","A","P","Í","T","U","L","O"," ","I">>
\* 'Seção I'
TextSecao1 == <<"S","e","ç","ã","o"," ","I">>
\* 'Subseção I'
TextSubsecao1 == <<"S","u","b","s","e","ç","ã","o"," ","I">>
\* 'Art. 1º A República'
TextArtigo1 ==
  <<"A","r","t","."," ","1","º"," ","A"," ","R","e","p","ú","b","l","i","c","a">>
\* 'Art. 1º O Presidente'
TextArtigo1Adct ==
  <<"A","r","t","."," ","1","º"," ","O"," ","P","r","e","s","i","d","e","n","t","e">>
\* 'Art. 2º Vide Art. 2º e leis'
TextArtigo2Self ==
  <<"A","r","t","."," ","2","º"," ","V","i","d","e"," ","A","r","t","."," ","2","º"," ","e",
    " ","l","e","i","s">>
\* 'Art. 3º'
TextArtigo3Bare == <<"A","r","t","."," ","3","º">>
\* '§ 1º Todo o poder'
TextParagrafo1 == <<"§"," ","1","º"," ","T","o","d","o"," ","o"," ","p","o","d","e","r">>
\* 'Parágrafo único. A lei'
TextParagrafoUnico ==
  <<"P","a","r","á","g","r","a","f","o"," ","ú","n","i","c","o","."," ","A"," ","l","e",
    "i">>
\* 'I - a soberania'
TextInciso1 == <<"I"," ","-"," ","a"," ","s","o","b","e","r","a","n","i","a">>
\* 'II - a cidadania'
TextInciso2 == <<"I","I"," ","-"," ","a"," ","c","i","d","a","d","a","n","i","a">>
\* 'a) plena'
TextAlineaA == <<"a",")"," ","p","l","e","n","a">>
\* 'ULYSSES GUIMARÃES'
TextAssinatura == <<"U","L","Y","S","S","E","S"," ","G","U","I","M","A","R","Ã","E","S">>
\* 'Brasília, 5 de outubro de 1988.'
TextLocalData ==
  <<"B","r","a","s","í","l","i","a",","," ","5"," ","d","e"," ","o","u","t","u","b","r","o",
    " ","d","e"," ","1","9","8","8",".">>
\* '  promulgamos a\n\n seguinte  '
TextContinuacao ==
  <<" "," ","p","r","o","m","u","l","g","a","m","o","s"," ","a","\n","\n"," ","s","e","g",
    "u","i","n","t","e"," "," ">>
\* 'PREÂMBULO'
TextPreambulo == <<"P","R","E","Â","M","B","U","L","O">>
\* 'CAPÍTULO I dispõe'
TextCapituloInline ==
  <<"C","A","P","Í","T","U","L","O"," ","I"," ","d","i","s","p","õ","e">>
\* '  '
TextVazio ==
  <<" "," ">>
\* 'II'
TextCurto ==
  <<"I","I">>
\* 'TÍTULO I - Casa Civil'
TextTituloCasaCivil ==
  <<"T","Í","T","U","L","O"," ","I"," ","-"," ","C","a","s","a"," ","C","i","v","i","l">>

\* a title whose text alone is longer than the maximum identifier length
TextTituloLongo == TituloPrefix \o <<" ">> \o [i \in 1..MaxIdLength |-> "X"]

BlockTitulo1 == Block(TextTitulo1, "center", FALSE)
BlockTitulo2 == Block(TextTitulo2, "", TRUE)
BlockCapitulo1 == Block(TextCapitulo1, "center", FALSE)
BlockSecao1 == Block(TextSecao1, "", TRUE)
BlockSubsecao1 == Block(TextSubsecao1, "center", FALSE)
BlockArtigo1 == Block(TextArtigo1, "", FALSE)
BlockArtigo1Adct == Block(TextArtigo1Adct, "", FALSE)
BlockArtigo2Self == Block(TextArtigo2Self, "", FALSE)
BlockParagrafo1 == Block(TextParagrafo1, "", FALSE)
BlockInciso1 == Block(TextInciso1, "", FALSE)
BlockInciso2 == Block(TextInciso2, "", FALSE)
BlockAlineaA == Block(TextAlineaA, "", FALSE)
BlockAssinatura == Block(TextAssinatura, "center", FALSE)
BlockLocalData == Block(TextLocalData, "center", FALSE)
BlockContinuacao == Block(TextContinuacao, "", FALSE)
BlockTituloLongo == Block(TextTituloLongo, "center", FALSE)
\* blocks with the prefix of a boundary and neither align="center" nor <b>
BlockTitulo2Inline == Block(TextTitulo2, "", FALSE)
BlockCapituloInline == Block(TextCapituloInline, "", FALSE)
BlockSecaoInline == Block(TextSecao1, "left", FALSE)
BlockSubsecaoInline == Block(TextSubsecao1, "", FALSE)
\* blocks the callback returns from early, and an article whose text is its
\* token alone
BlockVazio == Block(TextVazio, "center", FALSE)
BlockCurto == Block(TextCurto, "", TRUE)
BlockTituloCasaCivil == Block(TextTituloCasaCivil, "center", TRUE)
BlockArtigo3Bare == Block(TextArtigo3Bare, "", FALSE)
\* the top-level declarations: 'PREÂMBULO', 'EMENDA CONSTITUCIONAL Nº 1', the
\* heading of the transitional provisions and the promulgation text
TextEmenda1 == EmendaPrefix \o <<"1">>
BlockPreambulo == Block(TextPreambulo, "center", FALSE)
BlockEmenda1 == Block(TextEmenda1, "center", TRUE)
BlockAdct == Block(AdctPrefix, "", TRUE)
BlockPromulgado == Block(NosRepresentantes, "", FALSE)

\* the pages of the model: every sequence of at most MaxBlocks blocks of one
\* of these families
MaxBlocks == 4
HierarchyBlocks ==
  {BlockTitulo1, BlockTitulo2, BlockCapitulo1, BlockSecao1, BlockSubsecao1, BlockArtigo1}
ContentBlocks ==
  {BlockArtigo1, BlockArtigo1Adct, BlockParagrafo1, BlockInciso1, BlockInciso2, BlockAlineaA}
ClosingBlocks ==
  {BlockTitulo1, BlockArtigo1, BlockContinuacao, BlockAssinatura, BlockLocalData}
RoundTripBlocks == {BlockTitulo1, BlockCapitulo1, BlockArtigo1, BlockArtigo2Self}
LongBlocks == {BlockTituloLongo, BlockArtigo1, BlockParagrafo1}

SeqsUpTo(S, n) == UNION {[1..k -> S] : k \in 0..n}
Pages ==
  UNION {SeqsUpTo(F, MaxBlocks) :
           F \in {HierarchyBlocks, ContentBlocks, ClosingBlocks, RoundTripBlocks}}
LongPages == SeqsUpTo(LongBlocks, MaxBlocks)
RerunPages == SeqsUpTo(ContentBlocks, MaxBlocks)
InlineBlocks ==
  {BlockTitulo1, BlockCapitulo1, BlockTitulo2Inline, BlockCapituloInline, BlockSecaoInline,
   BlockSubsecaoInline, BlockArtigo1}
RejectedBlocks ==
  {BlockTitulo1, BlockArtigo1, BlockArtigo3Bare, BlockVazio, BlockCurto, BlockTituloCasaCivil}
BlockPages == SeqsUpTo(InlineBlocks, MaxBlocks) \cup SeqsUpTo(RejectedBlocks, MaxBlocks)
DeclarationBlocks ==
  {BlockCapitulo1, BlockArtigo1, BlockParagrafo1, BlockPreambulo, BlockEmenda1, BlockAdct,
   BlockPromulgado}
DeclarationPages == SeqsUpTo(DeclarationBlocks, MaxBlocks)

\* ------------------------------------------------------------------ markup
\* ' align="center"', '<a href="', 'href="'
AlignCenterAttr == <<" ","a","l","i","g","n","=","\"","c","e","n","t","e","r","\"">>
HrefAttr == <<"h","r","e","f","=","\"">>
AnchorOpen == <<"<","a"," ">> \o HrefAttr

\* the markup of one <p> element of the page: the text a Block is read from
Render(b) ==
  <<"<","p">> \o (IF b.align = "center" THEN AlignCenterAttr ELSE <<>>) \o <<">">>
    \o (IF b.bold THEN <<"<","b",">">> ELSE <<>>)
    \o (IF b.anchor THEN AnchorOpen \o b.href \o <<"\"",">">> ELSE <<>>)
    \o b.text
    \o (IF b.anchor THEN <<"<","/","a",">">> ELSE <<>>)
    \o (IF b.bold THEN <<"<","/","b",">">> ELSE <<>>)
    \o <<"<","/","p",">">>
\* htmlContent: the markup of the page
RECURSIVE RenderPage(_)
RenderPage(blocks) ==
  IF blocks = <<>> THEN <<>> ELSE Render(Head(blocks)) \o RenderPage(Tail(blocks))

\* The tokens cheerio.load reads from a text.  A tag runs from '<' to the
\* first '>' outside a double-quoted attribute value; a text that ends inside
\* a tag loses that tag; everything else is character data.
RECURSIVE TagEnd(_, _, _)
TagEnd(s, i, quoted) ==
  IF i > Len(s) THEN 0
  ELSE IF s[i] = "\"" THEN TagEnd(s, i + 1, ~quoted)
  ELSE IF s[i] = ">" /\ ~quoted THEN i
  ELSE TagEnd(s, i + 1, quoted)
IsTextChar(c) == c # "<"
IsValueChar(c) == c # "\""
\* the value of the href attribute of the tag, '' when it has none
HrefOf(tag) ==
  LET i == IndexOf(tag, HrefAttr)
  IN IF i = 0 THEN <<>>
     ELSE SubSeq(tag, i + Len(HrefAttr), RunEnd(tag, i + Len(HrefAttr), IsValueChar) - 1)
TagToken(tag) ==
  LET closing == tag[2] = "/"
      from == IF closing THEN 3 ELSE 2
  IN [kind |-> IF closing THEN "end" ELSE "start",
      name |-> ToLowerCase(SubSeq(tag, from, RunEnd(tag, from, IsAsciiLetter) - 1)),
      text |-> <<>>,
      href |-> HrefOf(tag)]
TextToken(text) == [kind |-> "text", name |-> <<>>, text |-> text, href |-> <<>>]
RECURSIVE Tokenize(_, _)
Tokenize(s, i) ==
  IF i > Len(s) THEN <<>>
  ELSE IF s[i] = "<"
       THEN LET e == TagEnd(s, i + 1, FALSE)
            IN IF e = 0 THEN <<>>
               ELSE <<TagToken(SubSeq(s, i, e))>> \o Tokenize(s, e + 1)
  ELSE LET e == RunEnd(s, i, IsTextChar)
       IN <<TextToken(SubSeq(s, i, e - 1))>> \o Tokenize(s, e)

\* The elements of the document cheerio.load builds, in document order, each
\* with the text of its descendants: html, head and body always; a start tag
\* opens an element (a <p> first closes an open <p>); an end tag closes the
\* open element of its name; a </p> without an open <p> makes an empty <p>;
\* any other end tag without its open element is ignored.  open is the stack
\* of the open elements below body.
Element(name, href) == [name |-> name, text |-> <<>>, href |-> href]
HtmlName == <<"h","t","m","l">>
HeadName == <<"h","e","a","d">>
BodyName == <<"b","o","d","y">>
EmptyTree ==
  [elements |-> <<Element(HtmlName, <<>>), Element(HeadName, <<>>), Element(BodyName, <<>>)>>,
   open |-> <<>>]
OpenIndexOf(tree, name) ==
  LET hits == {k \in 1..Len(tree.open) : tree.elements[tree.open[k]].name = name}
  IN IF hits = {} THEN 0 ELSE CHOOSE k \in hits : \A h \in hits : h <= k
CloseTo(tree, k) == [tree EXCEPT !.open = SubSeq(tree.open, 1, k - 1)]
AddText(tree, text) ==
  LET receivers == {1, 3} \cup {tree.open[k] : k \in 1..Len(tree.open)}
  IN [tree EXCEPT !.elements =
        [i \in 1..Len(tree.elements) |->
           IF i \in receivers THEN [tree.elements[i] EXCEPT !.text = @ \o text]
           ELSE tree.elements[i]]]
OpenElement(tree, name, href) ==
  [elements |-> Append(tree.elements, Element(name, href)),
   open |-> Append(tree.open, Len(tree.elements) + 1)]
AddToken(tree, token) ==
  LET k == OpenIndexOf(tree, token.name)
  IN IF token.kind = "text" THEN AddText(tree, token.text)
     ELSE IF token.kind = "start"
          THEN OpenElement(IF token.name = <<"p">> /\ k > 0 THEN CloseTo(tree, k) ELSE tree,
                           token.name, token.href)
     ELSE IF k > 0 THEN CloseTo(tree, k)
     ELSE IF token.name = <<"p">>
          THEN [tree EXCEPT !.elements = Append(@, Element(token.name, <<>>))]
     ELSE tree
RECURSIVE BuildTree(_, _)
BuildTree(tree, tokens) ==
  IF tokens = <<>> THEN tree ELSE BuildTree(AddToken(tree, Head(tokens)), Tail(tokens))
\* $('*') of cheerio.load(htmlChunk)
Elements(htmlChunk) == BuildTree(EmptyTree, Tokenize(htmlChunk, 1)).elements

\* ------------------------------------------------------------------ streaming parser
\* text.length < 10 in parseHtmlChunk; chunkSize = 8192 in parseHtmlStream
StreamMinTextLength == 10
DefaultChunkSize == 8192

\* /^WORD\s+[IVX]+/i
IsHeading(text, word) ==
  /\ StartsWithCI(text, word)
  /\ LET a == RunEnd(text, Len(word) + 1, IsSpace)
     IN a > Len(word) + 1 /\ a <= Len(text) /\ IsIVXCI(text[a])
\* /^WORD\s*\d+/i
IsNumbered(text, word) ==
  /\ StartsWithCI(text, word)
  /\ LET a == RunEnd(text, Len(word) + 1, IsSpace)
     IN a <= Len(text) /\ IsDigit(text[a])
\* the character U+2013 (an en dash), which no page of the model holds
EnDash == "ndash"
\* /^[IVX]+\s*[-–]/i
IsIncisoLoose(text) ==
  LET a == RunEnd(text, 1, IsIVXCI)
      b == RunEnd(text, a, IsSpace)
  IN a > 1 /\ b <= Len(text) /\ text[b] \in {"-", EnDash}
\* /^[a-z]\)\s*/i
IsAlineaLoose(text) == Len(text) >= 2 /\ IsAsciiLetter(text[1]) /\ text[2] = ")"

\* detectElementType(text, tagName); "" is null
DetectElementType(text) ==
  IF IsHeading(text, TituloPrefix) THEN "TÍTULO"
  ELSE IF IsHeading(text, CapituloPrefix) THEN "CAPÍTULO"
  ELSE IF IsHeading(text, SecaoUpper) THEN "SEÇÃO"
  ELSE IF IsHeading(text, SubsecaoUpper) THEN "SUBSEÇÃO"
  ELSE IF IsNumbered(text, ArtDot) THEN "Artigo"
  ELSE IF IsNumbered(text, ParagraphSign) THEN "Parágrafo"
  ELSE IF IsIncisoLoose(text) THEN "Inciso"
  ELSE IF IsAlineaLoose(text) THEN "Alínea"
  ELSE IF Contains(text, NosRepresentantes) THEN "PREÂMBULO"
  ELSE ""

\* text.match(/Art\.\s*(\d+)/i): the digits of the leftmost match, '' when
\* there is no match
ArticleMatchAt(text, i) ==
  /\ MatchAtCI(text, ArtDot, i)
  /\ LET a == RunEnd(text, i + Len(ArtDot), IsSpace)
     IN a <= Len(text) /\ IsDigit(text[a])
ArticleMatch(text) ==
  IF \E i \in 1..Len(text) : ArticleMatchAt(text, i)
  THEN LET i == CHOOSE i \in 1..Len(text) :
                  ArticleMatchAt(text, i) /\ \A j \in 1..(i - 1) : ~ArticleMatchAt(text, j)
           a == RunEnd(text, i + Len(ArtDot), IsSpace)
       IN SubSeq(text, a, RunEnd(text, a, IsDigit) - 1)
  ELSE <<>>

\* updateContext(currentContext, elementType, text)
UpdateContext(ctx, elementType, text) ==
  IF elementType = "TÍTULO"
    THEN Context(text, Undefined, Undefined, Undefined, Undefined)
  ELSE IF elementType = "CAPÍTULO"
    THEN Context(ctx.title, text, Undefined, Undefined, Undefined)
  ELSE IF elementType = "SEÇÃO"
    THEN Context(ctx.title, ctx.chapter, text, Undefined, Undefined)
  ELSE IF elementType = "SUBSEÇÃO"
    THEN Context(ctx.title, ctx.chapter, ctx.section, text, Undefined)
  ELSE IF elementType = "Artigo" /\ ArticleMatch(text) # <<>>
    THEN [ctx EXCEPT !.articleNumber = ArtSpace \o ArticleMatch(text)]
  ELSE ctx

\* extractAttributes($element): of id, class and href the pages have href only
ExtractAttributes(element) ==
  IF element.href # <<>> THEN << <<"href", element.href>> >> ELSE <<>>

\* the callback of $('*').each from the i-th element on: every item takes its
\* context from the context the chunk was entered with
RECURSIVE ChunkItems(_, _, _, _)
ChunkItems(elements, i, context, lineNumber) ==
  IF i > Len(elements) THEN <<>>
  ELSE LET text == Trim(elements[i].text)
           elementType == IF text = <<>> \/ Len(text) < StreamMinTextLength THEN ""
                          ELSE DetectElementType(text)
       IN IF elementType = "" THEN ChunkItems(elements, i + 1, context, lineNumber)
          ELSE << [elementType |-> elementType,
                   text |-> text,
                   hierarchicalContext |-> UpdateContext(context, elementType, text),
                   attributes |-> ExtractAttributes(elements[i]),
                   lineNumber |-> lineNumber] >>
               \o ChunkItems(elements, i + 1, context, lineNumber + 1)
\* parseHtmlChunk(htmlChunk, sourceUrl, context, startLineNumber)
ParseHtmlChunk(htmlChunk, context, startLineNumber) ==
  ChunkItems(Elements(htmlChunk), 1, context, startLineNumber)

\* chunk.split('\n').length
LineCount(s) == Cardinality({i \in 1..Len(s) : s[i] = "\n"}) + 1
\* Buffer.byteLength(s, 'utf8'): the letters of the texts outside ASCII take
\* two bytes, the dash '–' three
ByteLengthOf(c) ==
  IF c = EnDash THEN 3
  ELSE IF c \in {"º", "§", "ª"} \/ (c \in DOMAIN LowerOf \cup DOMAIN UpperOf /\ ~IsAsciiLetter(c)) THEN 2
  ELSE 1
ByteLength(s) ==
  Len(s) + Cardinality({i \in 1..Len(s) : ByteLengthOf(s[i]) >= 2})
         + Cardinality({i \in 1..Len(s) : ByteLengthOf(s[i]) = 3})

\* the pages of the streaming runs and the chunk sizes they are read with
BlockLink ==
  [Block(TextInciso1, "", FALSE) EXCEPT !.anchor = TRUE, !.href = <<"a",">","b">>]
MaxStreamBlocks == 2
SmallChunkSize == 4
StreamBlocks == {BlockCapitulo1, BlockSecao1, BlockArtigo1, BlockParagrafo1, BlockLink}
StreamPages == SeqsUpTo(StreamBlocks, MaxStreamBlocks)
ChunkSizes == {1, SmallChunkSize, DefaultChunkSize}

\* ------------------------------------------------------------------ state
\* this._configService.get<number>('INDEXING_BATCH_SIZE', 200)
DefaultBatchSize == 200
\* A JavaScript number or string of decimal digits, by its decimal writing.
\* ConfigService.get returns the default as the number it is and a variable
\* of the environment as the string it is.
JsNumber(n) == [type |-> "number", value |-> NumberToString(n)]
JsString(s) == [type |-> "string", value |-> s]
\* Number(v) of such a value
DigitValue(c) == (CHOOSE d \in 1..Len(Digits) : Digits[d] = c) - 1
RECURSIVE DigitsToNumber(_)
DigitsToNumber(s) ==
  IF Len(s) = 0 THEN 0
  ELSE DigitsToNumber(SubSeq(s, 1, Len(s) - 1)) * 10 + DigitValue(s[Len(s)])
ToNumber(v) == DigitsToNumber(v.value)
\* a + b: the sum of two numbers, the concatenation when either is a string
Plus(a, b) ==
  IF a.type = "string" \/ b.type = "string" THEN JsString(a.value \o b.value)
  ELSE JsNumber(ToNumber(a) + ToNumber(b))
\* a promise not yet settled, a call not yet answered
Pending == "pending"
\* what a call of indexDocuments gave: nothing yet, undefined, or an object
\* of counts
NotSettled == [type |-> "pending", counts |-> <<>>]
Void == [type |-> "undefined", counts |-> <<>>]
Report(counts) == [type |-> "object", counts |-> counts]

\* ------------------------------------------------------------------ auth
\* bcrypt.hash(password, 12) and bcrypt.compare(password, hashed); the salt
\* is left out, compare being true exactly of the password that was hashed
Hash(password) == [bcrypt |-> password]
Compare(password, hashed) == hashed = Hash(password)

AdminDefaultPassword == "admin123"
UserDefaultPassword == "user123"

\* a user object as createUser and initializeDefaultUsers build it
NewUser(id, username, hashed, role) ==
  [id |-> id, username |-> username, password |-> hashed, role |-> role,
   isActive |-> TRUE, lastLoginAt |-> Undefined]

\* the two users of initializeDefaultUsers
DefaultUsers ==
  <<NewUser(<<"admin">>, "admin", Hash(AdminDefaultPassword), "admin"),
    NewUser(<<"user">>, "user", Hash(UserDefaultPassword), "user")>>

\* no auth operation has been called or has returned
NoEvent == [kind |-> "none", id |-> 0, op |-> "", username |-> "", result |-> ""]

\* no second run
NoRun == [run |-> 0]

\* the entries of the logger of CacheService
CacheHit == "Cache HIT"
CacheMiss == "Cache MISS"
CacheGetError == "Cache get error"
CachedHtml == "Cached HTML content"
CacheSetError == "Cache set error"

VARIABLES
  doc,                         \* the <p> elements of the fetched page, in order
  pc,                          \* where the run is: "parse", "parsed", "transform", "transformed"
  lineNumber,                  \* _parseConstitutionHtml: lineNumber
  currentContext,              \* _parseConstitutionHtml: currentContext
  items,                       \* _parseConstitutionHtml: items, then rawItems
  cursor,                      \* _transformData: the position of the for-of loop
  currentFullReferenceParts,   \* _transformData: currentFullReferenceParts
  lastArticleNumberForContext, \* _transformData: lastArticleNumberForContext
  documents,                   \* _transformData: documents
  now,                         \* _transformData: now
  clock,                       \* the wall clock, in seconds
  previousDocuments,           \* the documents returned by the run before this one
  reran,                       \* the transformer was called a second time
  origins,                     \* for each document, the lineNumber of the item it was built from
  chunkSize,                   \* parseHtmlStream: chunkSize
  position,                    \* createHtmlChunks: position
  buffer,                      \* createHtmlChunks: buffer
  generator,                   \* createHtmlChunks: "idle", "loop" or "done"
  chunks,                      \* the chunks yielded so far
  consumed,                    \* the number of chunks the transform callback has taken
  results,                     \* parseHtmlStream: results
  processedBytes,              \* parseHtmlStream: processedBytes
  progress,                    \* the calls of onProgress: <<processed, total>>
  run,                         \* the number of the run of the pipeline, from 1
  exists,                      \* the search engine: the collection exists
  index,                       \* the search engine: the documents the collection holds
  cached,                      \* the cache holds the page under html_content:<key>
  calls,                       \* the calls issued to the engine and the source, with replies
  batchSize,                   \* indexDocuments: batchSize
  batchStart,                  \* indexDocuments: i of the for loop
  errorLog,                    \* the error-level log entries, in order
  ensured,                     \* how ensureCollectionExists settled; Pending before
  returned,                    \* what indexDocuments resolved with; Pending before
  response,                    \* what triggerConstitutionScrapingAndIndexing gave its caller
  cacheLog,                    \* CacheService: what its logger wrote, in order
  other,                       \* the locals of a second run suspended at an await
  users,                       \* AuthService.users: username to the object it maps to
  heap,                        \* the user objects ever stored, by reference
  awaiting,                    \* the auth operations suspended at an await
  tokens,                      \* the payloads of the tokens signed so far
  authCalls,                   \* the number of auth operations called so far
  event                        \* the last call or return of an auth operation

vars ==
  <<doc, pc, lineNumber, currentContext, items, cursor, currentFullReferenceParts,
    lastArticleNumberForContext, documents, now, clock, previousDocuments, reran, origins,
    chunkSize, position, buffer, generator, chunks, consumed, results, processedBytes,
    progress, run, exists, index, cached, calls, batchSize, batchStart, errorLog, ensured,
    returned, response, cacheLog, other, users, heap, awaiting, tokens, authCalls, event>>

authVars == <<users, heap, awaiting, tokens, authCalls, event>>
idleVars == <<other, authVars>>
runVars ==
  <<run, exists, index, cached, calls, batchSize, batchStart, errorLog, ensured, returned,
    response, cacheLog, idleVars>>
streamVars ==
  <<chunkSize, position, buffer, generator, chunks, consumed, results, processedBytes,
    progress>>
parserVars == <<lineNumber, currentContext, items>>
transformerVars ==
  <<cursor, currentFullReferenceParts, lastArticleNumberForContext, documents, now, clock,
    previousDocuments, reran, origins>>

\* AuthService after its constructor and initializeDefaultUsers
AuthIdle ==
  /\ heap = DefaultUsers
  /\ users = [username \in {"admin", "user"} |-> IF username = "admin" THEN 1 ELSE 2]
  /\ awaiting = {}
  /\ tokens = {}
  /\ authCalls = 0
  /\ event = NoEvent

\* the run of the pipeline before triggerConstitutionScrapingAndIndexing is
\* called, the collection being there or not, the page being in the cache
\* (an entry lives 24 hours) or not
RunIdle(size, present, held) ==
  /\ run = 1
  /\ exists = present
  /\ index = <<>>
  /\ cached = held
  /\ calls = <<>>
  /\ batchSize = size
  /\ batchStart = JsNumber(0)
  /\ errorLog = <<>>
  /\ ensured = Pending
  /\ returned = NotSettled
  /\ response = Pending
  /\ cacheLog = <<>>
  /\ AuthIdle

\* the state when _parseConstitutionHtml enters its loop over a page
Start(page) ==
  /\ doc = page
  /\ other = NoRun
  /\ pc = "parse"
  /\ lineNumber = 0
  /\ currentContext = EmptyContext
  /\ items = <<>>
  /\ cursor = 0
  /\ currentFullReferenceParts = <<>>
  /\ lastArticleNumberForContext = Undefined
  /\ documents = <<>>
  /\ now = 0
  /\ clock = 0
  /\ previousDocuments = <<>>
  /\ reran = FALSE
  /\ origins = <<>>
  /\ chunkSize = DefaultChunkSize
  /\ position = 0
  /\ buffer = <<>>
  /\ generator = "idle"
  /\ chunks = <<>>
  /\ consumed = 0
  /\ results = <<>>
  /\ processedBytes = 0
  /\ progress = <<>>
  /\ RunIdle(JsNumber(DefaultBatchSize), FALSE, FALSE)

Init == \E page \in Pages : Start(page)
InitLong == \E page \in LongPages : Start(page)
InitRerun == \E page \in RerunPages : Start(page)
InitBlocks == \E page \in BlockPages : Start(page)
InitDeclarations == \E page \in DeclarationPages : Start(page)

\* Classified with hierarchicalContext holding currentContext itself instead
\* of a copy of it: every item pushed so far shows the running context
ClassifiedAliased(r) ==
  /\ currentContext' = r.context
  /\ items' = [k \in 1..Len(items) |-> [items[k] EXCEPT !.hierarchicalContext = r.context]]
               \o r.items

\* the effect of one call of the callback on currentContext and items
Classified(r) ==
  /\ currentContext' = r.context
  /\ items' = items \o r.items

\* ParseBlock with the item stamped before lineNumber++ instead of after it
ParseBlockStaleLine ==
  /\ pc = "parse"
  /\ lineNumber < Len(doc)
  /\ Classified(ClassifyBlock(currentContext, doc, lineNumber + 1, 0))
  /\ lineNumber' = lineNumber + 1
  /\ UNCHANGED <<doc, pc>>
  /\ UNCHANGED transformerVars
  /\ UNCHANGED streamVars
  /\ UNCHANGED runVars

\* ParseBlock with the <p> an article took its text from removed from the
\* traversal
ParseBlockSkipsLookahead ==
  /\ pc = "parse"
  /\ lineNumber < Len(doc)
  /\ Classified(ClassifyBlock(currentContext, doc, lineNumber + 1, lineNumber + 1))
  /\ lineNumber' = IF UsesLookahead(doc, lineNumber + 1) THEN lineNumber + 2
                   ELSE lineNumber + 1
  /\ UNCHANGED <<doc, pc>>
  /\ UNCHANGED transformerVars
  /\ UNCHANGED streamVars
  /\ UNCHANGED runVars

\* the callback of $('body p').each on the next <p>
ParseBlock ==
  /\ pc = "parse"
  /\ lineNumber < Len(doc)
  /\ Classified(ClassifyBlock(currentContext, doc, lineNumber + 1, lineNumber + 1))
  /\ lineNumber' = lineNumber + 1
  /\ UNCHANGED <<doc, pc>>
  /\ UNCHANGED transformerVars
  /\ UNCHANGED streamVars
  /\ UNCHANGED runVars

\* _parseConstitutionHtml returns items
ParseReturn ==
  /\ pc = "parse"
  /\ lineNumber = Len(doc)
  /\ pc' = "parsed"
  /\ UNCHANGED doc
  /\ UNCHANGED parserVars
  /\ UNCHANGED transformerVars
  /\ UNCHANGED streamVars
  /\ UNCHANGED runVars

\* BeginLocals with currentFullReferenceParts kept across calls, as a field
\* of the service would be
BeginLocalsKeepParts ==
  /\ cursor' = 1
  /\ UNCHANGED currentFullReferenceParts
  /\ lastArticleNumberForContext' = Undefined
  /\ documents' = <<>>
  /\ origins' = <<>>

\* the locals of _transformData as a call initialises them
BeginLocals ==
  /\ cursor' = 1
  /\ currentFullReferenceParts' = <<>>
  /\ lastArticleNumberForContext' = Undefined
  /\ documents' = <<>>
  /\ origins' = <<>>

\* _transformData(rawItems) is called by the run
TransformBegin ==
  /\ pc = "parsed"
  /\ pc' = "transform"
  /\ BeginLocals
  /\ now' = clock
  /\ UNCHANGED <<doc, clock, previousDocuments, reran>>
  /\ UNCHANGED parserVars
  /\ UNCHANGED streamVars
  /\ UNCHANGED runVars

\* _transformData(rawItems) is called a second time on the same rawItems; the
\* clock may have advanced by a second since the first call
TransformAgain ==
  /\ pc = "transformed"
  /\ ~reran
  /\ pc' = "transform"
  /\ previousDocuments' = documents
  /\ reran' = TRUE
  /\ BeginLocals
  /\ \E t \in {clock, clock + 1} : now' = t /\ clock' = t
  /\ UNCHANGED doc
  /\ UNCHANGED parserVars
  /\ UNCHANGED streamVars
  /\ UNCHANGED runVars

\* the end of the loop body: the two locals are assigned and, unless the
\* item's branch ended in continue, its document is pushed
PushDocument(item, n, parts, last) ==
  /\ currentFullReferenceParts' = parts
  /\ lastArticleNumberForContext' = last
  /\ IF IsTransformed(item)
     THEN /\ documents' =
               Append(documents, BuildDocument(FullReference(parts), last, item, n, items, now))
          /\ origins' = Append(origins, item.lineNumber)
     ELSE UNCHANGED <<documents, origins>>

\* the loop body for item, n being the itemNumber of its branch
LoopBody(item, n) ==
  PushDocument(item, n, PartsAfter(currentFullReferenceParts, item, n),
               LastArticleAfter(lastArticleNumberForContext, item, n))

\* one iteration of the for-of loop of _transformData
TransformItem ==
  /\ pc = "transform"
  /\ cursor <= Len(items)
  /\ LoopBody(items[cursor], ItemNumber(items[cursor]))
  /\ cursor' = cursor + 1
  /\ UNCHANGED <<doc, pc, now, clock, previousDocuments, reran>>
  /\ UNCHANGED parserVars
  /\ UNCHANGED streamVars
  /\ UNCHANGED runVars

\* _transformData returns documents
TransformReturn ==
  /\ pc = "transform"
  /\ cursor > Len(items)
  /\ pc' = "transformed"
  /\ UNCHANGED doc
  /\ UNCHANGED parserVars
  /\ UNCHANGED transformerVars
  /\ UNCHANGED streamVars
  /\ UNCHANGED runVars

Next ==
  \/ ParseBlock
  \/ ParseReturn
  \/ TransformBegin
  \/ TransformItem
  \/ TransformReturn

\* the run with a second call of the transformer
NextRerun ==
  \/ Next
  \/ TransformAgain

\* the state when parseHtmlStream starts its pipeline on a page
StartStream(page, size) ==
  /\ doc = page
  /\ other = NoRun
  /\ pc = "stream"
  /\ lineNumber = 0
  /\ currentContext = EmptyContext
  /\ items = <<>>
  /\ cursor = 0
  /\ currentFullReferenceParts = <<>>
  /\ lastArticleNumberForContext = Undefined
  /\ documents = <<>>
  /\ now = 0
  /\ clock = 0
  /\ previousDocuments = <<>>
  /\ reran = FALSE
  /\ origins = <<>>
  /\ chunkSize = size
  /\ position = 0
  /\ buffer = <<>>
  /\ generator = "loop"
  /\ chunks = <<>>
  /\ consumed = 0
  /\ results = <<>>
  /\ processedBytes = 0
  /\ progress = <<>>
  /\ RunIdle(JsNumber(DefaultBatchSize), FALSE, FALSE)
InitStream == \E page \in StreamPages : \E size \in ChunkSizes : StartStream(page, size)

\* htmlContent of parseHtmlStream
htmlContent == RenderPage(doc)

\* one iteration of the while loop of createHtmlChunks
CreateHtmlChunksStep ==
  /\ pc = "stream"
  /\ generator = "loop"
  /\ position < Len(htmlContent)
  /\ LET grown == buffer \o Slice(htmlContent, position, position + chunkSize)
         lastTagEnd == LastIndexOf(grown, ">")
     IN IF lastTagEnd > 0 /\ Len(grown) > chunkSize
        THEN /\ chunks' = Append(chunks, Slice(grown, 0, lastTagEnd + 1))
             /\ buffer' = Slice(grown, lastTagEnd + 1, Len(grown))
        ELSE /\ buffer' = grown
             /\ UNCHANGED chunks
  /\ position' = position + chunkSize
  /\ UNCHANGED <<doc, pc, chunkSize, generator, consumed, results, processedBytes, progress>>
  /\ UNCHANGED parserVars
  /\ UNCHANGED transformerVars
  /\ UNCHANGED runVars

\* CreateHtmlChunksRest without the final yield of the buffer
CreateHtmlChunksRestDropsBuffer ==
  /\ pc = "stream"
  /\ generator = "loop"
  /\ position >= Len(htmlContent)
  /\ generator' = "done"
  /\ UNCHANGED <<doc, pc, chunkSize, position, buffer, chunks, consumed, results,
                 processedBytes, progress>>
  /\ UNCHANGED parserVars
  /\ UNCHANGED transformerVars
  /\ UNCHANGED runVars

\* createHtmlChunks leaves the loop and yields what the buffer still holds
CreateHtmlChunksRest ==
  /\ pc = "stream"
  /\ generator = "loop"
  /\ position >= Len(htmlContent)
  /\ chunks' = IF Len(buffer) > 0 THEN Append(chunks, buffer) ELSE chunks
  /\ generator' = "done"
  /\ UNCHANGED <<doc, pc, chunkSize, position, buffer, consumed, results, processedBytes,
                 progress>>
  /\ UNCHANGED parserVars
  /\ UNCHANGED transformerVars
  /\ UNCHANGED runVars

\* ParseTransform with onProgress called before processedBytes is advanced
ParseTransformStaleProgress ==
  /\ pc = "stream"
  /\ consumed < Len(chunks)
  /\ LET chunk == chunks[consumed + 1]
         parsed == ParseHtmlChunk(chunk, currentContext, lineNumber)
         processed == processedBytes + ByteLength(chunk)
     IN /\ IF Len(parsed) > 0
           THEN /\ currentContext' = parsed[Len(parsed)].hierarchicalContext
                /\ lineNumber' = lineNumber + LineCount(chunk)
           ELSE UNCHANGED <<currentContext, lineNumber>>
        /\ results' = results \o parsed
        /\ processedBytes' = processed
        /\ progress' = Append(progress, <<processedBytes, ByteLength(htmlContent)>>)
  /\ consumed' = consumed + 1
  /\ UNCHANGED <<doc, pc, items, chunkSize, position, buffer, generator, chunks>>
  /\ UNCHANGED transformerVars
  /\ UNCHANGED runVars

\* the transform callback of parseHtmlStream on the next chunk
ParseTransform ==
  /\ pc = "stream"
  /\ consumed < Len(chunks)
  /\ LET chunk == chunks[consumed + 1]
         parsed == ParseHtmlChunk(chunk, currentContext, lineNumber)
         processed == processedBytes + ByteLength(chunk)
     IN /\ IF Len(parsed) > 0
           THEN /\ currentContext' = parsed[Len(parsed)].hierarchicalContext
                /\ lineNumber' = lineNumber + LineCount(chunk)
           ELSE UNCHANGED <<currentContext, lineNumber>>
        /\ results' = results \o parsed
        /\ processedBytes' = processed
        /\ progress' = Append(progress, <<processed, ByteLength(htmlContent)>>)
  /\ consumed' = consumed + 1
  /\ UNCHANGED <<doc, pc, items, chunkSize, position, buffer, generator, chunks>>
  /\ UNCHANGED transformerVars
  /\ UNCHANGED runVars

\* the pipeline has ended: parseHtmlStream returns results
ParseHtmlStreamReturn ==
  /\ pc = "stream"
  /\ generator = "done"
  /\ consumed = Len(chunks)
  /\ pc' = "streamed"
  /\ UNCHANGED doc
  /\ UNCHANGED streamVars
  /\ UNCHANGED parserVars
  /\ UNCHANGED transformerVars
  /\ UNCHANGED runVars

NextStream ==
  \/ CreateHtmlChunksStep
  \/ CreateHtmlChunksRest
  \/ ParseTransform
  \/ ParseHtmlStreamReturn

Spec == Init /\ [][Next]_vars
SpecLong == InitLong /\ [][Next]_vars
SpecRerun == InitRerun /\ [][NextRerun]_vars
SpecBlocks == InitBlocks /\ [][Next]_vars
SpecDeclarations == InitDeclarations /\ [][Next]_vars
SpecStream == InitStream /\ [][NextStream]_vars
\* the generator is a synchronous loop and the pipeline drains it: a step
\* that can be taken is taken
SpecStreamFair == SpecStream /\ WF_vars(CreateHtmlChunksStep) /\ WF_vars(CreateHtmlChunksRest)

\* ------------------------------------------------------------------ run
\* the errors of the typesense client and of the HTTP client, by name
ObjectNotFound == "ObjectNotFound"
RetrieveErrors == {"RequestUnauthorized", "ServerError"}
ObjectAlreadyExists == "ObjectAlreadyExists"
CreationErrors == {ObjectAlreadyExists, "RequestMalformed"}
FetchErrors == {"ETIMEDOUT"}
ImportErrors == {"ServerError"}

\* the error-level log entries, by the start of their message
FailedToCreate == "Failed to CREATE collection"
ErrorDuringRetrieve == "Error during initial RETRIEVE of collection"
ErrorFetching == "Error fetching constitution HTML"
CriticalError == "Critical error during constitution processing"
ErrorsDuringImport == "errors occurred during batch import"
CriticalImportError == "Critical error during batch import"

\* Promise<void> resolved
Resolved == "resolved"
SchemaThatFailed == "Schema that failed creation"
\* the message triggerConstitutionScrapingAndIndexing returns
InitiatedSuccessfully == "Constitution scraping and indexing process initiated successfully."

\* a call as it is issued, and the call answered
Call(op, batch) ==
  [run |-> run, op |-> op, batch |-> batch, reply |-> Pending, results |-> <<>>]
Answered(call, reply, importResults) ==
  [call EXCEPT !.reply = reply, !.results = importResults]
InFlight == {k \in 1..Len(calls) : calls[k].run = run /\ calls[k].reply = Pending}
InFlightOf(op) == {k \in InFlight : calls[k].op = op}

\* this._logger.error(message, ...)
LogEntry(entry, message) == [run |-> run, entry |-> entry, message |-> message]

\* the engine's import with action: 'upsert' for one document: insert, or
\* replace the document of the same id
Upsert(held, document) ==
  IF \E k \in 1..Len(held) : held[k].id = document.id
  THEN [k \in 1..Len(held) |-> IF held[k].id = document.id THEN document ELSE held[k]]
  ELSE Append(held, document)

\* the documents of a batch the engine accepted, from the k-th on
RECURSIVE Accepted(_, _, _)
Accepted(batch, importResults, k) ==
  IF k > Len(batch) THEN <<>>
  ELSE (IF importResults[k] THEN <<batch[k]>> ELSE <<>>)
       \o Accepted(batch, importResults, k + 1)

\* Upserted with the accepted documents added and none replaced
Inserted(held, batch, importResults, k) == held \o Accepted(batch, importResults, k)

\* the collection after the import of a batch from its k-th document on,
\* importResults[j] telling whether the engine accepted the j-th
RECURSIVE Upserted(_, _, _, _)
Upserted(held, batch, importResults, k) ==
  IF k > Len(batch) THEN held
  ELSE Upserted(IF importResults[k] THEN Upsert(held, batch[k]) ELSE held,
                batch, importResults, k + 1)

\* the pages and batch sizes of the runs
MaxRunBlocks == 3
MaxReloadBlocks == 2
RunBlocks == {BlockArtigo1, BlockInciso1, BlockLocalData}
RunPages == SeqsUpTo(RunBlocks, MaxRunBlocks)
ReloadPages == SeqsUpTo(RunBlocks, MaxReloadBlocks)
BatchSizes == {JsNumber(1), JsNumber(2), JsNumber(DefaultBatchSize), JsString(<<"1">>)}

\* the locals of a run when triggerConstitutionScrapingAndIndexing is called
RunLocals(page) ==
  /\ doc = page
  /\ pc = "ensure"
  /\ lineNumber = 0
  /\ currentContext = EmptyContext
  /\ items = <<>>
  /\ cursor = 0
  /\ currentFullReferenceParts = <<>>
  /\ lastArticleNumberForContext = Undefined
  /\ documents = <<>>
  /\ now = 0
  /\ clock = 0
  /\ previousDocuments = <<>>
  /\ reran = FALSE
  /\ origins = <<>>
  /\ chunkSize = DefaultChunkSize
  /\ position = 0
  /\ buffer = <<>>
  /\ generator = "idle"
  /\ chunks = <<>>
  /\ consumed = 0
  /\ results = <<>>
  /\ processedBytes = 0
  /\ progress = <<>>

\* the state when triggerConstitutionScrapingAndIndexing is called
StartRun(page, size, present, held) ==
  /\ RunLocals(page)
  /\ RunIdle(size, present, held)
  /\ other = NoRun
InitRun ==
  \E page \in RunPages : \E size \in BatchSizes : \E present, held \in BOOLEAN :
    StartRun(page, size, present, held)
InitReload ==
  \E page \in ReloadPages : \E size \in BatchSizes : \E present, held \in BOOLEAN :
    StartRun(page, size, present, held)

pipelineVars ==
  <<doc, lineNumber, currentContext, items, cursor, currentFullReferenceParts,
    lastArticleNumberForContext, documents, now, clock, previousDocuments, reran, origins>>

\* the catch block of processConstitution: the error is logged and the
\* method returns
Caught(entries, message) ==
  /\ errorLog' = errorLog \o entries \o <<LogEntry(CriticalError, message)>>
  /\ pc' = "returned"

\* processConstitution calls ensureCollectionExists, which issues retrieve()
Retrieve ==
  /\ pc = "ensure"
  /\ calls' = Append(calls, Call("retrieve", <<>>))
  /\ pc' = "retrieve"
  /\ UNCHANGED <<run, exists, index, cached, batchSize, batchStart, errorLog, ensured,
                 returned, response>>
  /\ UNCHANGED pipelineVars
  /\ UNCHANGED streamVars
  /\ UNCHANGED <<cacheLog, idleVars>>

\* what create(schema) can be rejected with: the engine refuses a name it
\* already has, and accepts no second collection of that name
RejectionsOfCreate == {e \in CreationErrors : e = ObjectAlreadyExists => exists}

\* the reply to the call in flight
Reply(k, reply, importResults) == [calls EXCEPT ![k] = Answered(@, reply, importResults)]

\* RetrieveFound with create(schema) issued all the same
RetrieveFoundCreates ==
  /\ pc = "retrieve"
  /\ exists
  /\ \E k \in InFlightOf("retrieve") :
       calls' = Append(Reply(k, "ok", <<>>), Call("create", <<>>))
  /\ pc' = "create"
  /\ UNCHANGED <<run, exists, index, cached, batchSize, batchStart, errorLog, ensured,
                 returned, response>>
  /\ UNCHANGED pipelineVars
  /\ UNCHANGED streamVars
  /\ UNCHANGED <<cacheLog, idleVars>>

\* retrieve() resolves: the collection already exists
RetrieveFound ==
  /\ pc = "retrieve"
  /\ exists
  /\ \E k \in InFlightOf("retrieve") : calls' = Reply(k, "ok", <<>>)
  /\ ensured' = Resolved
  /\ pc' = "fetch"
  /\ UNCHANGED <<run, exists, index, cached, batchSize, batchStart, errorLog, returned,
                 response>>
  /\ UNCHANGED pipelineVars
  /\ UNCHANGED streamVars
  /\ UNCHANGED <<cacheLog, idleVars>>

\* retrieve() rejects with ObjectNotFound: create(schema) is issued
RetrieveNotFound ==
  /\ pc = "retrieve"
  /\ ~exists
  /\ \E k \in InFlightOf("retrieve") :
       calls' = Append(Reply(k, ObjectNotFound, <<>>), Call("create", <<>>))
  /\ pc' = "create"
  /\ UNCHANGED <<run, exists, index, cached, batchSize, batchStart, errorLog, ensured,
                 returned, response>>
  /\ UNCHANGED pipelineVars
  /\ UNCHANGED streamVars
  /\ UNCHANGED <<cacheLog, idleVars>>

\* RetrieveFails with the error logged and not thrown
RetrieveFailsSwallowed ==
  /\ pc = "retrieve"
  /\ \E k \in InFlightOf("retrieve") : \E e \in RetrieveErrors :
       /\ calls' = Reply(k, e, <<>>)
       /\ errorLog' = Append(errorLog, LogEntry(ErrorDuringRetrieve, e))
  /\ ensured' = Resolved
  /\ pc' = "fetch"
  /\ UNCHANGED <<run, exists, index, cached, batchSize, batchStart, returned, response>>
  /\ UNCHANGED pipelineVars
  /\ UNCHANGED streamVars
  /\ UNCHANGED <<cacheLog, idleVars>>

\* retrieve() rejects with another error: it is logged and thrown again
RetrieveFails ==
  /\ pc = "retrieve"
  /\ \E k \in InFlightOf("retrieve") : \E e \in RetrieveErrors :
       /\ calls' = Reply(k, e, <<>>)
       /\ ensured' = e
       /\ Caught(<<LogEntry(ErrorDuringRetrieve, e)>>, e)
  /\ UNCHANGED <<run, exists, index, cached, batchSize, batchStart, returned, response>>
  /\ UNCHANGED pipelineVars
  /\ UNCHANGED streamVars
  /\ UNCHANGED <<cacheLog, idleVars>>

\* create(schema) resolves
CreateOk ==
  /\ pc = "create"
  /\ ~exists
  /\ \E k \in InFlightOf("create") : calls' = Reply(k, "ok", <<>>)
  /\ exists' = TRUE
  /\ ensured' = Resolved
  /\ pc' = "fetch"
  /\ UNCHANGED <<run, index, cached, batchSize, batchStart, errorLog, returned, response>>
  /\ UNCHANGED pipelineVars
  /\ UNCHANGED streamVars
  /\ UNCHANGED <<cacheLog, idleVars>>

\* CreateFails with the creation error logged and not thrown
CreateFailsSwallowed ==
  /\ pc = "create"
  /\ \E k \in InFlightOf("create") : \E e \in RejectionsOfCreate :
       /\ calls' = Reply(k, e, <<>>)
       /\ errorLog' = errorLog \o <<LogEntry(FailedToCreate, e), LogEntry(SchemaThatFailed, e)>>
       /\ ensured' = e
  /\ pc' = "fetch"
  /\ UNCHANGED <<run, exists, index, cached, batchSize, batchStart, returned, response>>
  /\ UNCHANGED pipelineVars
  /\ UNCHANGED streamVars
  /\ UNCHANGED <<cacheLog, idleVars>>

\* create(schema) rejects: the creation error is logged and thrown
CreateFails ==
  /\ pc = "create"
  /\ \E k \in InFlightOf("create") : \E e \in RejectionsOfCreate :
       /\ calls' = Reply(k, e, <<>>)
       /\ ensured' = e
       /\ Caught(<<LogEntry(FailedToCreate, e), LogEntry(SchemaThatFailed, e)>>, e)
  /\ UNCHANGED <<run, exists, index, cached, batchSize, batchStart, returned, response>>
  /\ UNCHANGED pipelineVars
  /\ UNCHANGED streamVars
  /\ UNCHANGED <<cacheLog, idleVars>>

\* _fetchConstitutionHtml: the cache holds the page
FetchCached ==
  /\ pc = "fetch"
  /\ cached
  /\ cacheLog' = Append(cacheLog, CacheHit)
  /\ pc' = "parse"
  /\ UNCHANGED <<run, exists, index, cached, calls, batchSize, batchStart, errorLog, ensured,
                 returned, response>>
  /\ UNCHANGED idleVars
  /\ UNCHANGED pipelineVars
  /\ UNCHANGED streamVars

\* FetchFresh with an error of the cache read thrown to processConstitution
FetchFreshFatal ==
  /\ pc = "fetch"
  /\ \/ /\ ~cached
        /\ cacheLog' = Append(cacheLog, CacheMiss)
        /\ calls' = Append(calls, Call("get", <<>>))
        /\ pc' = "http"
        /\ UNCHANGED errorLog
     \/ /\ cacheLog' = Append(cacheLog, CacheGetError)
        /\ Caught(<<>>, CacheGetError)
        /\ UNCHANGED calls
  /\ UNCHANGED <<run, exists, index, cached, batchSize, batchStart, ensured, returned,
                 response>>
  /\ UNCHANGED pipelineVars
  /\ UNCHANGED streamVars
  /\ UNCHANGED idleVars

\* _fetchConstitutionHtml: the cache gave nothing (a miss, or an error that
\* getHtmlContent logs and turns into null): the page is requested
FetchFresh ==
  /\ pc = "fetch"
  /\ \E outcome \in (IF cached THEN {CacheGetError} ELSE {CacheMiss, CacheGetError}) :
       cacheLog' = Append(cacheLog, outcome)
  /\ calls' = Append(calls, Call("get", <<>>))
  /\ pc' = "http"
  /\ UNCHANGED <<run, exists, index, cached, batchSize, batchStart, errorLog, ensured,
                 returned, response>>
  /\ UNCHANGED pipelineVars
  /\ UNCHANGED streamVars
  /\ UNCHANGED idleVars

\* the request resolves: the page is cached (setHtmlContent logs and
\* swallows its own errors) and returned
FetchOk ==
  /\ pc = "http"
  /\ \E k \in InFlightOf("get") : calls' = Reply(k, "ok", <<>>)
  /\ \/ cached' = TRUE /\ cacheLog' = Append(cacheLog, CachedHtml)
     \/ cached' = cached /\ cacheLog' = Append(cacheLog, CacheSetError)
  /\ pc' = "parse"
  /\ UNCHANGED <<run, exists, index, batchSize, batchStart, errorLog, ensured, returned,
                 response>>
  /\ UNCHANGED pipelineVars
  /\ UNCHANGED streamVars
  /\ UNCHANGED idleVars

\* the request rejects: the error is logged and thrown
FetchFails ==
  /\ pc = "http"
  /\ \E k \in InFlightOf("get") : \E e \in FetchErrors :
       /\ calls' = Reply(k, e, <<>>)
       /\ Caught(<<LogEntry(ErrorFetching, e)>>, e)
  /\ UNCHANGED <<run, exists, index, cached, batchSize, batchStart, ensured, returned,
                 response>>
  /\ UNCHANGED pipelineVars
  /\ UNCHANGED streamVars
  /\ UNCHANGED <<cacheLog, idleVars>>

\* AbortEmpty without the early return: the transformer is called on no item
AbortEmptyTransforms ==
  /\ Len(items) = 0
  /\ TransformBegin

\* rawData.length === 0: processConstitution returns before the transformer
AbortEmpty ==
  /\ pc = "parsed"
  /\ Len(items) = 0
  /\ pc' = "returned"
  /\ UNCHANGED runVars
  /\ UNCHANGED pipelineVars
  /\ UNCHANGED streamVars

\* processConstitution calls _transformData(rawData)
TransformData ==
  /\ Len(items) # 0
  /\ TransformBegin

\* processConstitution after _transformData: indexDocuments is called when
\* there are documents, and enters its loop
IndexDocuments ==
  /\ pc = "transformed"
  /\ IF Len(documents) > 0
     THEN /\ pc' = "index"
          /\ batchStart' = JsNumber(0)
     ELSE /\ pc' = "returned"
          /\ UNCHANGED batchStart
  /\ UNCHANGED <<run, exists, index, cached, calls, batchSize, errorLog, ensured, returned,
                 response>>
  /\ UNCHANGED pipelineVars
  /\ UNCHANGED streamVars
  /\ UNCHANGED <<cacheLog, idleVars>>

\* ImportBatch with the import started and not awaited
ImportBatchNoAwait ==
  /\ pc = "index"
  /\ ToNumber(batchStart) < Len(documents)
  /\ calls' = Append(calls, Call("import", Slice(documents, ToNumber(batchStart),
                                                 ToNumber(Plus(batchStart, batchSize)))))
  /\ batchStart' = Plus(batchStart, batchSize)
  /\ UNCHANGED <<run, exists, index, cached, batchSize, errorLog, ensured, returned,
                 response>>
  /\ UNCHANGED pc
  /\ UNCHANGED pipelineVars
  /\ UNCHANGED streamVars
  /\ UNCHANGED <<cacheLog, idleVars>>

\* the head of the for loop of indexDocuments: the next batch is sliced and
\* its import issued
ImportBatch ==
  /\ pc = "index"
  /\ ToNumber(batchStart) < Len(documents)
  /\ calls' = Append(calls, Call("import", Slice(documents, ToNumber(batchStart),
                                                 ToNumber(Plus(batchStart, batchSize)))))
  /\ pc' = "import"
  /\ UNCHANGED <<run, exists, index, cached, batchSize, batchStart, errorLog, ensured,
                 returned, response>>
  /\ UNCHANGED pipelineVars
  /\ UNCHANGED streamVars
  /\ UNCHANGED <<cacheLog, idleVars>>

\* the error entry of a batch with rejected documents, none when all succeeded
ImportErrorsOf(importResults) ==
  IF \E j \in 1..Len(importResults) : ~importResults[j]
  THEN <<LogEntry(ErrorsDuringImport, "success: false")>>
  ELSE <<>>

\* import() resolves with one result per document: the engine has upserted
\* the documents it accepted; rejections are logged
ImportResults ==
  /\ pc = "import"
  /\ \E k \in InFlightOf("import") : \E flags \in [1..Len(calls[k].batch) -> BOOLEAN] :
       /\ calls' = Reply(k, "ok", flags)
       /\ index' = Upserted(index, calls[k].batch, flags, 1)
       /\ errorLog' = errorLog \o ImportErrorsOf(flags)
  /\ batchStart' = Plus(batchStart, batchSize)
  /\ pc' = "index"
  /\ UNCHANGED <<run, exists, cached, batchSize, ensured, returned, response>>
  /\ UNCHANGED pipelineVars
  /\ UNCHANGED streamVars
  /\ UNCHANGED <<cacheLog, idleVars>>

\* ImportFails with the error thrown out of indexDocuments
ImportFailsThrown ==
  /\ pc = "import"
  /\ \E k \in InFlightOf("import") : \E e \in ImportErrors :
       /\ calls' = Reply(k, e, <<>>)
       /\ Caught(<<LogEntry(CriticalImportError, e)>>, e)
  /\ UNCHANGED <<run, exists, index, cached, batchSize, batchStart, ensured, returned,
                 response>>
  /\ UNCHANGED pipelineVars
  /\ UNCHANGED streamVars
  /\ UNCHANGED <<cacheLog, idleVars>>

\* ImportFails with the rejected batch sent again, the attempt forgotten
ImportFailsResends ==
  /\ pc = "import"
  /\ \E k \in InFlightOf("import") : calls' = SubSeq(calls, 1, k - 1)
  /\ pc' = "index"
  /\ UNCHANGED <<run, exists, index, cached, batchSize, batchStart, errorLog, ensured,
                 returned, response>>
  /\ UNCHANGED pipelineVars
  /\ UNCHANGED streamVars
  /\ UNCHANGED <<cacheLog, idleVars>>

\* import() rejects: the error is logged and the loop goes on
ImportFails ==
  /\ pc = "import"
  /\ \E k \in InFlightOf("import") : \E e \in ImportErrors :
       /\ calls' = Reply(k, e, <<>>)
       /\ errorLog' = Append(errorLog, LogEntry(CriticalImportError, e))
  /\ batchStart' = Plus(batchStart, batchSize)
  /\ pc' = "index"
  /\ UNCHANGED <<run, exists, index, cached, batchSize, ensured, returned, response>>
  /\ UNCHANGED pipelineVars
  /\ UNCHANGED streamVars
  /\ UNCHANGED <<cacheLog, idleVars>>

\* the for loop has ended: indexDocuments resolves with undefined and
\* processConstitution returns
IndexDocumentsReturn ==
  /\ pc = "index"
  /\ ToNumber(batchStart) >= Len(documents)
  /\ returned' = Void
  /\ pc' = "returned"
  /\ UNCHANGED <<run, exists, index, cached, calls, batchSize, batchStart, errorLog,
                 ensured, response>>
  /\ UNCHANGED pipelineVars
  /\ UNCHANGED streamVars
  /\ UNCHANGED <<cacheLog, idleVars>>

\* processConstitution has returned: triggerConstitutionScrapingAndIndexing
\* returns its message
Respond ==
  /\ pc = "returned"
  /\ response' = InitiatedSuccessfully
  /\ pc' = "responded"
  /\ UNCHANGED <<run, exists, index, cached, calls, batchSize, batchStart, errorLog,
                 ensured, returned>>
  /\ UNCHANGED pipelineVars
  /\ UNCHANGED streamVars
  /\ UNCHANGED <<cacheLog, idleVars>>

\* triggerConstitutionScrapingAndIndexing is called again on the same source,
\* the clock a second later or not
TriggerAgain ==
  /\ pc = "responded"
  /\ run = 1
  /\ run' = run + 1
  /\ pc' = "ensure"
  /\ lineNumber' = 0
  /\ currentContext' = EmptyContext
  /\ items' = <<>>
  /\ cursor' = 0
  /\ currentFullReferenceParts' = <<>>
  /\ lastArticleNumberForContext' = Undefined
  /\ documents' = <<>>
  /\ origins' = <<>>
  /\ batchStart' = JsNumber(0)
  /\ ensured' = Pending
  /\ returned' = NotSettled
  /\ response' = Pending
  /\ \E t \in {clock, clock + 1} : clock' = t
  /\ UNCHANGED <<doc, now, previousDocuments, reran>>
  /\ UNCHANGED <<exists, index, cached, calls, batchSize, errorLog, cacheLog>>
  /\ UNCHANGED streamVars
  /\ UNCHANGED idleVars
  /\ UNCHANGED <<cacheLog, idleVars>>

NextRun ==
  \/ Retrieve
  \/ RetrieveFound
  \/ RetrieveNotFound
  \/ RetrieveFails
  \/ CreateOk
  \/ CreateFails
  \/ FetchCached
  \/ FetchFresh
  \/ FetchOk
  \/ FetchFails
  \/ ParseBlock
  \/ ParseReturn
  \/ AbortEmpty
  \/ TransformData
  \/ TransformItem
  \/ TransformReturn
  \/ IndexDocuments
  \/ ImportBatch
  \/ ImportResults
  \/ ImportFails
  \/ IndexDocumentsReturn
  \/ Respond

NextReload ==
  \/ NextRun
  \/ TriggerAgain

\* the steps of the two synchronous loops, by their guards
ParseStep ==
  /\ pc = "parse"
  /\ lineNumber < Len(doc)
  /\ lineNumber' = lineNumber + 1
TransformStep ==
  /\ pc = "transform"
  /\ cursor <= Len(items)
  /\ cursor' = cursor + 1
\* the steps of the run outside the two loops
RunStep ==
  \/ Retrieve
  \/ RetrieveFound
  \/ RetrieveNotFound
  \/ RetrieveFails
  \/ CreateOk
  \/ CreateFails
  \/ FetchCached
  \/ FetchFresh
  \/ FetchOk
  \/ FetchFails
  \/ ParseReturn
  \/ AbortEmpty
  \/ TransformData
  \/ TransformReturn
  \/ IndexDocuments
  \/ ImportBatch
  \/ ImportResults
  \/ ImportFails
  \/ IndexDocumentsReturn
  \/ Respond

SpecRun == InitRun /\ [][NextRun]_vars
\* synchronous code runs on, and every call to the engine and to the source
\* is answered or fails
SpecRunFair ==
  SpecRun /\ WF_lineNumber(ParseStep) /\ WF_cursor(TransformStep) /\ WF_vars(RunStep)
SpecReload == InitReload /\ [][NextReload]_vars

\* ------------------------------------------------------------------ two runs
\* the locals of the run that is executing, as they are kept while it waits
Locals ==
  [run |-> run, pc |-> pc, lineNumber |-> lineNumber, currentContext |-> currentContext,
   items |-> items, cursor |-> cursor,
   currentFullReferenceParts |-> currentFullReferenceParts,
   lastArticleNumberForContext |-> lastArticleNumberForContext, documents |-> documents,
   now |-> now, origins |-> origins, batchStart |-> batchStart, ensured |-> ensured,
   returned |-> returned, response |-> response]

\* the locals of a second call of triggerConstitutionScrapingAndIndexing
\* that has not taken a step
SecondRun ==
  [run |-> 2, pc |-> "ensure", lineNumber |-> 0, currentContext |-> EmptyContext,
   items |-> <<>>, cursor |-> 0, currentFullReferenceParts |-> <<>>,
   lastArticleNumberForContext |-> Undefined, documents |-> <<>>, now |-> 0,
   origins |-> <<>>, batchStart |-> JsNumber(0), ensured |-> Pending,
   returned |-> NotSettled, response |-> Pending]

\* where a run waits: before its first step, at each await, after its last
AwaitPoints == {"ensure", "retrieve", "create", "fetch", "http", "import", "responded"}

\* the event loop turns to the other run: the run that was executing waits
\* at its await, the other resumes where it waited
Switch ==
  /\ other.run # 0
  /\ pc \in AwaitPoints
  /\ other' = Locals
  /\ run' = other.run
  /\ pc' = other.pc
  /\ lineNumber' = other.lineNumber
  /\ currentContext' = other.currentContext
  /\ items' = other.items
  /\ cursor' = other.cursor
  /\ currentFullReferenceParts' = other.currentFullReferenceParts
  /\ lastArticleNumberForContext' = other.lastArticleNumberForContext
  /\ documents' = other.documents
  /\ now' = other.now
  /\ origins' = other.origins
  /\ batchStart' = other.batchStart
  /\ ensured' = other.ensured
  /\ returned' = other.returned
  /\ response' = other.response
  /\ UNCHANGED <<doc, clock, previousDocuments, reran>>
  /\ UNCHANGED <<exists, index, cached, calls, batchSize, errorLog, cacheLog>>
  /\ UNCHANGED streamVars
  /\ UNCHANGED authVars

\* the pages of two concurrent runs
MaxRaceBlocks == 1
RacePages == SeqsUpTo({BlockArtigo1}, MaxRaceBlocks)

\* two calls of triggerConstitutionScrapingAndIndexing have been received
InitRace ==
  \E page \in RacePages : \E present, held \in BOOLEAN :
    /\ RunLocals(page)
    /\ RunIdle(JsNumber(DefaultBatchSize), present, held)
    /\ other = SecondRun

NextRace ==
  \/ NextRun
  \/ Switch

SpecRace == InitRace /\ [][NextRace]_vars

\* ------------------------------------------------------------------ auth operations
InvalidCredentials == "Invalid credentials"
UsernameExists == "Username already exists"
Null == "null"

\* the calls made to AuthService
MaxAuthCalls == 3
OperatedUsernames == {"admin", "ana"}
TriedPasswords == {AdminDefaultPassword, "s3cret"}
UpdateChoices == {[isActive |-> FALSE], [isActive |-> TRUE], [role |-> "user"]}

\* what no auth operation touches
appVars ==
  <<doc, pc, parserVars, transformerVars, streamVars, run, exists, index, cached, calls,
    batchSize, batchStart, errorLog, ensured, returned, response, cacheLog, other>>

\* !(!user || !user.isActive) for user = this.users.get(username)
IsActiveUser(username) == username \in DOMAIN users /\ heap[users[username]].isActive

\* IsActiveUser without the test of isActive
IsKnownUser(username) == username \in DOMAIN users

\* this.users.set(username, user), user being the object of reference ref
SetUser(username, ref) ==
  [name \in DOMAIN users \cup {username} |-> IF name = username THEN ref ELSE users[name]]

\* Object.assign(user, updates)
Assign(user, updates) ==
  [field \in DOMAIN user |-> IF field \in DOMAIN updates THEN updates[field] ELSE user[field]]

\* the payload login signs
Payload(user) == [sub |-> user.id, username |-> user.username, role |-> user.role]

\* an operation called, suspended at its await, and returned
Called(op, username) ==
  [kind |-> "call", id |-> authCalls + 1, op |-> op, username |-> username,
   result |-> Pending]
Returned(id, op, username, result) ==
  [kind |-> "return", id |-> id, op |-> op, username |-> username, result |-> result]
Suspended(op, username, ref, valid, password, role) ==
  [id |-> authCalls + 1, op |-> op, username |-> username, ref |-> ref, valid |-> valid,
   password |-> password, role |-> role]

\* a call is received
AuthCall ==
  /\ authCalls < MaxAuthCalls
  /\ authCalls' = authCalls + 1
  /\ UNCHANGED appVars

\* login(loginDto) up to the await of bcrypt.compare in validateUser; an
\* unknown or inactive user is refused at once
LoginCall(username, password) ==
  /\ AuthCall
  /\ IF IsActiveUser(username)
     THEN /\ awaiting' = awaiting \cup
               {Suspended("login", username, users[username],
                          Compare(password, heap[users[username]].password), password, "")}
          /\ event' = Called("login", username)
     ELSE /\ event' = Returned(authCalls + 1, "login", username, InvalidCredentials)
          /\ UNCHANGED awaiting
  /\ UNCHANGED <<users, heap, tokens>>

\* bcrypt.compare has settled: validateUser and login run to their end
LoginCompared ==
  /\ \E op \in awaiting :
       /\ op.op = "login"
       /\ awaiting' = awaiting \ {op}
       /\ IF op.valid
          THEN /\ heap' = [heap EXCEPT ![op.ref].lastLoginAt = <<clock>>]
               /\ tokens' = tokens \cup {Payload(heap[op.ref])}
               /\ event' = Returned(op.id, "login", op.username, "ok")
          ELSE /\ event' = Returned(op.id, "login", op.username, InvalidCredentials)
               /\ UNCHANGED <<heap, tokens>>
  /\ UNCHANGED <<users, authCalls>>
  /\ UNCHANGED appVars

\* ValidateToken with the token of a deactivated user accepted
ValidateTokenAnyStatus(payload) ==
  /\ AuthCall
  /\ event' = Returned(authCalls + 1, "validateToken", payload.username,
                       IF IsKnownUser(payload.username) THEN "user" ELSE Null)
  /\ UNCHANGED <<users, heap, awaiting, tokens>>

\* validateToken(payload), the payload being that of a token login signed
ValidateToken(payload) ==
  /\ AuthCall
  /\ event' = Returned(authCalls + 1, "validateToken", payload.username,
                       IF IsActiveUser(payload.username) THEN "user" ELSE Null)
  /\ UNCHANGED <<users, heap, awaiting, tokens>>

\* createUser(userData) up to the await of bcrypt.hash; a username the
\* store has is refused at once
CreateUserCall(username, password, role) ==
  /\ AuthCall
  /\ IF username \in DOMAIN users
     THEN /\ event' = Returned(authCalls + 1, "createUser", username, UsernameExists)
          /\ UNCHANGED awaiting
     ELSE /\ awaiting' = awaiting \cup
               {Suspended("createUser", username, 0, TRUE, password, role)}
          /\ event' = Called("createUser", username)
  /\ UNCHANGED <<users, heap, tokens>>

\* bcrypt.hash has settled: the new user is stored under its username
CreateUserHashed ==
  /\ \E op \in awaiting :
       /\ op.op = "createUser"
       /\ awaiting' = awaiting \ {op}
       /\ heap' = Append(heap, NewUser(<<"user_", clock>>, op.username, Hash(op.password),
                                       op.role))
       /\ users' = SetUser(op.username, Len(heap) + 1)
       /\ event' = Returned(op.id, "createUser", op.username, "user")
  /\ UNCHANGED <<tokens, authCalls>>
  /\ UNCHANGED appVars

\* updateUser(username, updates)
UpdateUser(username, updates) ==
  /\ AuthCall
  /\ IF username \in DOMAIN users
     THEN /\ heap' = [heap EXCEPT ![users[username]] = Assign(@, updates)]
          /\ event' = Returned(authCalls + 1, "updateUser", username, "user")
     ELSE /\ event' = Returned(authCalls + 1, "updateUser", username, Null)
          /\ UNCHANGED heap
  /\ UNCHANGED <<users, awaiting, tokens>>

\* changePassword(username, oldPassword, newPassword) up to the await of
\* bcrypt.compare
ChangePasswordCall(username, oldPassword, newPassword) ==
  /\ AuthCall
  /\ IF username \in DOMAIN users
     THEN /\ awaiting' = awaiting \cup
               {Suspended("changePassword", username, users[username],
                          Compare(oldPassword, heap[users[username]].password),
                          newPassword, "")}
          /\ event' = Called("changePassword", username)
     ELSE /\ event' = Returned(authCalls + 1, "changePassword", username, "false")
          /\ UNCHANGED awaiting
  /\ UNCHANGED <<users, heap, tokens>>

\* bcrypt.compare has settled: false is returned, or bcrypt.hash is awaited
ChangePasswordCompared ==
  /\ \E op \in awaiting :
       /\ op.op = "changePassword"
       /\ IF op.valid
          THEN /\ awaiting' = (awaiting \ {op}) \cup {[op EXCEPT !.op = "changePasswordHash"]}
               /\ UNCHANGED event
          ELSE /\ awaiting' = awaiting \ {op}
               /\ event' = Returned(op.id, "changePassword", op.username, "false")
  /\ UNCHANGED <<users, heap, tokens, authCalls>>
  /\ UNCHANGED appVars

\* bcrypt.hash has settled: the new hash is stored
ChangePasswordHashed ==
  /\ \E op \in awaiting :
       /\ op.op = "changePasswordHash"
       /\ awaiting' = awaiting \ {op}
       /\ heap' = [heap EXCEPT ![op.ref].password = Hash(op.password)]
       /\ users' = SetUser(op.username, op.ref)
       /\ event' = Returned(op.id, "changePassword", op.username, "true")
  /\ UNCHANGED <<tokens, authCalls>>
  /\ UNCHANGED appVars

\* the application is up and no run has been triggered
InitAuth == StartRun(<<>>, JsNumber(DefaultBatchSize), FALSE, FALSE)

NextAuth ==
  \/ \E username \in OperatedUsernames : \E password \in TriedPasswords :
       LoginCall(username, password)
  \/ LoginCompared
  \/ \E payload \in tokens : ValidateToken(payload)
  \/ \E username \in OperatedUsernames : \E password \in TriedPasswords :
       CreateUserCall(username, password, "user")
  \/ CreateUserHashed
  \/ \E username \in OperatedUsernames : \E updates \in UpdateChoices :
       UpdateUser(username, updates)
  \/ \E username \in OperatedUsernames : \E oldPassword, newPassword \in TriedPasswords :
       ChangePasswordCall(username, oldPassword, newPassword)
  \/ ChangePasswordCompared
  \/ ChangePasswordHashed

SpecAuth == InitAuth /\ [][NextAuth]_vars

\* ------------------------------------------------------------------ properties
\* the block the next ParseBlock step processes is accepted and matched by
\* the rule of the given element type
NextBlockMatches(type) ==
  /\ pc = "parse"
  /\ lineNumber < Len(doc)
  /\ ~IsRejected(doc[lineNumber + 1])
  /\ MatchedRule(doc, lineNumber + 1) = type
NextBlockText == NormalizedText(doc[lineNumber + 1])

\* the page starts with the given blocks
PageStartsWith(blocks) ==
  /\ Len(doc) >= Len(blocks)
  /\ \A i \in 1..Len(blocks) : doc[i] = blocks[i]

\* the document built from the item of the given lineNumber; <<>> when none
DocumentsFrom(n) == {i \in 1..Len(documents) : origins[i] = n}

\* C1 (downward reset): a step that processes a block matched as a boundary
\* sets the context field of that level to the block's text, unsets every
\* field of a lower level, the active article number included, and keeps
\* every field of a higher level; the item it emits carries that context.
DownwardResetStep ==
  /\ NextBlockMatches("TÍTULO") =>
       currentContext' = Context(NextBlockText, Undefined, Undefined, Undefined, Undefined)
  /\ NextBlockMatches("CAPÍTULO") =>
       currentContext' =
         Context(currentContext.title, NextBlockText, Undefined, Undefined, Undefined)
  /\ NextBlockMatches("SEÇÃO") =>
       currentContext' =
         Context(currentContext.title, currentContext.chapter, NextBlockText,
                 Undefined, Undefined)
  /\ NextBlockMatches("SUBSEÇÃO") =>
       currentContext' =
         Context(currentContext.title, currentContext.chapter, currentContext.section,
                 NextBlockText, Undefined)
  /\ (\E type \in BoundaryTypes : NextBlockMatches(type)) =>
       /\ Len(items') = Len(items) + 1
       /\ items'[Len(items')].hierarchicalContext = currentContext'
       /\ items'[Len(items')].text = NextBlockText
\* the example of the claim: TÍTULO, CAPÍTULO, article, then a second TÍTULO
DownwardResetExample ==
  PageStartsWith(<<BlockTitulo1, BlockCapitulo1, BlockArtigo1>>) =>
    /\ lineNumber >= 3 =>
         items[3].hierarchicalContext =
           Context(TextTitulo1, TextCapitulo1, Undefined, Undefined, ArtToken(TextArtigo1))
    /\ (lineNumber >= 4 /\ doc[4] = BlockTitulo2) =>
         /\ items[4].hierarchicalContext =
              Context(TextTitulo2, Undefined, Undefined, Undefined, Undefined)
         /\ lineNumber = 4 => currentContext = items[4].hierarchicalContext
DownwardReset == [][DownwardResetStep]_vars /\ []DownwardResetExample
\* a second TÍTULO has just cleared a chapter and an article number
DownwardResetWitness ==
  /\ doc = <<BlockTitulo1, BlockCapitulo1, BlockArtigo1, BlockTitulo2>>
  /\ lineNumber = 4
  /\ Len(items) = 4
  /\ items[3].hierarchicalContext.chapter = TextCapitulo1
  /\ items[3].hierarchicalContext.articleNumber # Undefined
  /\ currentContext.title = TextTitulo2
  /\ currentContext.chapter = Undefined

\* C2 (order preservation): each block yields at most one item, the items are
\* in block order with strictly increasing lineNumber, and the documents are
\* in the order of the items they were built from, at most one per item.
OrderPreservation ==
  /\ Len(items) <= lineNumber
  /\ \A k \in 1..Len(items) : items[k].lineNumber \in 1..lineNumber
  /\ \A k \in 1..(Len(items) - 1) : items[k].lineNumber < items[k + 1].lineNumber
  /\ Len(origins) = Len(documents)
  /\ \A j \in 1..Len(origins) : \E k \in 1..Len(items) : items[k].lineNumber = origins[j]
  /\ \A j \in 1..(Len(origins) - 1) : origins[j] < origins[j + 1]
\* a page whose second block is rejected by no rule: three blocks, three
\* items, three documents
OrderPreservationWitness ==
  /\ pc = "transformed"
  /\ Len(doc) = 4
  /\ Len(items) = 3
  /\ Len(documents) = 3
  /\ items[3].lineNumber = 4

\* C8 (terminal kinds): an item of kind ASSINATURA or LOCAL_DATA yields no
\* document and every item of another kind yields exactly one, so the
\* transformer returns as many documents as there are non-terminal items.
NonTerminalItems(n) == {k \in 1..n : items[k].elementType \notin TerminalTypes}
TerminalKinds ==
  pc \in {"transform", "transformed"} =>
    LET done == IF pc = "transformed" THEN Len(items) ELSE cursor - 1
    IN /\ Len(documents) = Cardinality(NonTerminalItems(done))
       /\ \A k \in 1..done :
            Cardinality(DocumentsFrom(items[k].lineNumber)) =
              IF items[k].elementType \in TerminalTypes THEN 0 ELSE 1
\* a signature and a date line were consumed, an article was indexed
TerminalKindsWitness ==
  /\ pc = "transformed"
  /\ \E k \in 1..Len(items) : items[k].elementType = "ASSINATURA"
  /\ \E k \in 1..Len(items) : items[k].elementType = "LOCAL_DATA"
  /\ \E j \in 1..Len(documents) : documents[j].type = "Artigo"
  /\ Len(documents) = Len(items) - 2

\* C4 (transformer idempotence): the second call of the transformer on the
\* same items returns, position by position, the identifiers, full references
\* and tags of the first; documents of the two calls with the same full
\* reference and origin have the same identifier.
TransformerIdempotence ==
  (pc = "transformed" /\ reran) =>
    /\ Len(documents) = Len(previousDocuments)
    /\ \A i \in 1..Len(documents) :
         /\ documents[i].id = previousDocuments[i].id
         /\ documents[i].fullReference = previousDocuments[i].fullReference
         /\ documents[i].tags = previousDocuments[i].tags
\* the second call has returned three documents stamped a second later
TransformerIdempotenceWitness ==
  /\ pc = "transformed"
  /\ reran
  /\ Len(documents) = 3
  /\ documents[3].type = "Inciso"
  /\ documents[1].lastIndexedAt # previousDocuments[1].lastIndexedAt

\* C3 (identifier uniqueness): the items of a run have pairwise distinct
\* lineNumbers, and no two documents of the run have the same identifier,
\* also when the full reference is longer than the identifier may be.
IdentifierUniqueness ==
  /\ \A i, j \in 1..Len(items) : i # j => items[i].lineNumber # items[j].lineNumber
  /\ \A i, j \in 1..Len(documents) : i # j => documents[i].id # documents[j].id

\* C5 (round trip): a title block and a chapter block with a hint followed by
\* an article block "A B" yield exactly one document for the article block,
\* of kind Artigo, with full reference "T, C, A" and text B.
RoundTrip ==
  (/\ pc = "transformed"
   /\ Len(doc) >= 3
   /\ \A i \in 1..3 : ~IsRejected(doc[i])
   /\ MatchedRule(doc, 1) = "TÍTULO"
   /\ MatchedRule(doc, 2) = "CAPÍTULO"
   /\ MatchedRule(doc, 3) = "Artigo"
   /\ StripArtToken(NormalizedText(doc[3])) # <<>>)
  => /\ Cardinality(DocumentsFrom(3)) = 1
     /\ \A j \in DocumentsFrom(3) :
          /\ documents[j].type = "Artigo"
          /\ documents[j].fullReference =
               NormalizedText(doc[1]) \o CommaSpace \o NormalizedText(doc[2]) \o CommaSpace
                 \o ArtToken(NormalizedText(doc[3]))
          /\ documents[j].text = StripArtToken(NormalizedText(doc[3]))

\* the position of the last item of one of the kinds among items[from..k-1];
\* 0 when there is none
LastOfKind(kinds, from, k) ==
  LET hits == {j \in from..(k - 1) : j >= 1 /\ items[j].elementType \in kinds}
  IN IF hits = {} THEN 0 ELSE CHOOSE j \in hits : \A h \in hits : h <= j
\* the token a paragraph, item or sub-item contributes to a full reference
OwnToken(item) ==
  IF item.elementType = "Inciso" THEN IncisoLabel \o ItemNumber(item)
  ELSE IF item.elementType = "Alínea" THEN AlineaLabel \o ItemNumber(item)
  ELSE ItemNumber(item)
\* the ancestor chain of items[k] followed by its own token: the labels and
\* the article number of its context, the paragraph that encloses an item or
\* sub-item, the item that encloses a sub-item
ChainReference(k) ==
  LET item == items[k]
      hc == item.hierarchicalContext
      a == LastOfKind({"Artigo"}, 1, k)
      p == IF item.elementType \in {"Inciso", "Alínea"}
           THEN LastOfKind({"Parágrafo"}, a + 1, k) ELSE 0
      n == IF item.elementType = "Alínea"
           THEN LastOfKind({"Inciso"}, (IF p > 0 THEN p ELSE a) + 1, k) ELSE 0
  IN Join(FilterTruthy(<<hc.title, hc.chapter, hc.section, hc.subSection, hc.articleNumber,
                         IF p > 0 THEN OwnToken(items[p]) ELSE <<>>,
                         IF n > 0 THEN OwnToken(items[n]) ELSE <<>>,
                         OwnToken(item)>>),
          CommaSpace)
\* C6 (full reference of content kinds): the full reference of a paragraph,
\* item or sub-item is its ancestor chain followed by its own token; it holds
\* no token of a preceding sibling.
ContentReference ==
  pc = "transformed" =>
    \A k \in 1..Len(items) :
      items[k].elementType \in {"Parágrafo", "Inciso", "Alínea"} =>
        \A j \in DocumentsFrom(items[k].lineNumber) :
          documents[j].fullReference = ChainReference(k)

\* C7 (parent linkage): the document of a paragraph item that immediately
\* follows the item of an article block has that article's number as its
\* parent article number and that article's text in its hierarchical context.
ParentLinkage ==
  pc = "transformed" =>
    \A k \in 1..(Len(items) - 1) :
      (/\ items[k].elementType = "Artigo"
       /\ MatchedRule(doc, items[k].lineNumber) = "Artigo"
       /\ items[k + 1].elementType = "Parágrafo")
      => \A j \in DocumentsFrom(items[k + 1].lineNumber) :
           /\ documents[j].parentArticleNumber = items[k].hierarchicalContext.articleNumber
           /\ Contains(documents[j].hierarchicalTextContext, items[k].text)

\* C9 (streaming equivalence): the items parseHtmlStream returns for a page,
\* whatever the chunk size, are the items _parseConstitutionHtml returns for
\* it: the same kinds, texts, context snapshots and lineNumbers in the same
\* order.
StreamingEquivalence ==
  pc = "streamed" => results = ParseConstitutionHtml(doc)

\* the boundary after the first k characters of s falls inside a tag of s
RECURSIVE InsideTagFrom(_, _, _)
InsideTagFrom(s, i, k) ==
  IF i > Len(s) \/ i > k THEN FALSE
  ELSE IF s[i] = "<"
       THEN LET e == TagEnd(s, i + 1, FALSE)
            IN IF e = 0 \/ k < e THEN TRUE ELSE InsideTagFrom(s, e + 1, k)
  ELSE InsideTagFrom(s, RunEnd(s, i, IsTextChar), k)
InsideTag(s, k) == InsideTagFrom(s, 1, k)
\* the number of characters of the first j chunks
RECURSIVE YieldedLength(_)
YieldedLength(j) == IF j = 0 THEN 0 ELSE YieldedLength(j - 1) + Len(chunks[j])
\* every chunk with a chunk after it ends with the character '>'
ChunksEndWithGreaterThan ==
  \A j \in 1..(Len(chunks) - 1) : chunks[j] # <<>> /\ chunks[j][Len(chunks[j])] = ">"
\* C10 (tag-safe chunking): no boundary between two chunks falls inside a
\* markup tag of the page: every chunk before the final one ends right after
\* the '>' that closes a tag.
TagSafeChunking ==
  \A j \in 1..(Len(chunks) - 1) :
    /\ chunks[j] # <<>>
    /\ chunks[j][Len(chunks[j])] = ">"
    /\ ~InsideTag(htmlContent, YieldedLength(j))

\* the calls of one kind a run has issued, as positions in calls
CallsOf(r, op) == {k \in 1..Len(calls) : calls[k].run = r /\ calls[k].op = op}
\* the runs so far
Runs == 1..run
\* the log holds the entry of processConstitution's catch block for error e
CaughtIn(r, e) ==
  \E k \in 1..Len(errorLog) : errorLog[k] = [run |-> r, entry |-> CriticalError, message |-> e]

\* C11 (idempotent index creation): a create call directly follows a retrieve
\* call of the same run answered with not-found; a run whose retrieve found
\* the collection issues no create call, so a run after one that ensured the
\* collection creates nothing; a run whose retrieve reported not-found has
\* issued exactly one create call.
IdempotentIndexCreation ==
  /\ \A k \in 1..Len(calls) :
       calls[k].op = "create" =>
         /\ k > 1
         /\ calls[k - 1].op = "retrieve"
         /\ calls[k - 1].run = calls[k].run
         /\ calls[k - 1].reply = ObjectNotFound
  /\ \A r \in Runs :
       /\ Cardinality(CallsOf(r, "retrieve")) <= 1
       /\ (\E k \in CallsOf(r, "retrieve") : calls[k].reply = "ok") =>
            CallsOf(r, "create") = {}
       /\ (\E k \in CallsOf(r, "retrieve") : calls[k].reply = ObjectNotFound) =>
            Cardinality(CallsOf(r, "create")) = 1
  /\ \A r \in Runs :
       (/\ r > 1
        /\ \E k \in CallsOf(r - 1, "retrieve") \cup CallsOf(r - 1, "create") :
             calls[k].reply = "ok"
        /\ \E k \in CallsOf(r, "retrieve") : calls[k].reply # Pending) =>
         CallsOf(r, "create") = {}
\* the first run created the missing collection, the second found it
IdempotentIndexCreationWitness ==
  /\ run = 2
  /\ ensured = Resolved
  /\ \E k \in CallsOf(1, "create") : calls[k].reply = "ok"
  /\ \E k \in CallsOf(2, "retrieve") : calls[k].reply = "ok"
  /\ CallsOf(2, "create") = {}

\* C12 (ensureIndex error propagation): a retrieve call answered with an
\* error other than not-found is followed by no create call of that run, and
\* ensureCollectionExists rejects with that error, which is the one
\* processConstitution catches; a create call answered with an error makes
\* ensureCollectionExists reject with the creation error.
EnsureIndexErrorPropagation ==
  \A r \in Runs :
    /\ \A k \in CallsOf(r, "retrieve") :
         calls[k].reply \in RetrieveErrors =>
           /\ CallsOf(r, "create") = {}
           /\ r = run => ensured = calls[k].reply
           /\ CaughtIn(r, calls[k].reply)
    /\ \A k \in CallsOf(r, "create") :
         calls[k].reply \in CreationErrors =>
           /\ r = run => ensured = calls[k].reply
           /\ CaughtIn(r, calls[k].reply)
\* a retrieve call has failed with an error that is not not-found
EnsureIndexErrorPropagationWitness ==
  /\ pc = "responded"
  /\ ensured \in RetrieveErrors
  /\ \E k \in CallsOf(run, "retrieve") : calls[k].reply = ensured

\* the import calls a run has issued, in the order of issue
ImportCalls(r) == SelectSeq(calls, LAMBDA c : c.run = r /\ c.op = "import")
\* Math.ceil(n / b)
Ceil(n, b) == (n + b - 1) \div b
\* the batches one after the other
RECURSIVE Concat(_, _)
Concat(issued, k) == IF k > Len(issued) THEN <<>> ELSE issued[k].batch \o Concat(issued, k + 1)
\* the call was answered with a result for every document, all successful
FullyAccepted(c) == c.reply = "ok" /\ \A j \in 1..Len(c.results) : c.results[j]

\* C13 (batch partition): the k-th upsert call of indexDocuments carries the
\* documents from position (k-1)*b up to k*b, so every batch but the last has
\* b documents and the last between 1 and b; when indexDocuments has returned
\* it has issued ceil(n/b) calls whose batches, one after the other, are the
\* documents.
BatchPartition ==
  /\ \A k \in 1..Len(ImportCalls(run)) :
       /\ ImportCalls(run)[k].batch =
            Slice(documents, (k - 1) * ToNumber(batchSize), k * ToNumber(batchSize))
       /\ Len(ImportCalls(run)[k].batch) \in 1..ToNumber(batchSize)
       /\ k < Len(ImportCalls(run)) =>
            Len(ImportCalls(run)[k].batch) = ToNumber(batchSize)
  /\ returned = Void =>
       /\ Len(ImportCalls(run)) = Ceil(Len(documents), ToNumber(batchSize))
       /\ Concat(ImportCalls(run), 1) = documents
\* the same for the runs whose batch size is a number
BatchPartitionOfNumbers == batchSize.type = "number" => BatchPartition

\* C14 (partial-failure isolation): whatever the replies to the batches
\* were, once processConstitution has returned from a run that started
\* indexing, indexDocuments has resolved, its batches are the documents, each
\* once, and no error of a batch reached the catch block of
\* processConstitution; while documents are left, the next batch can be
\* issued.
PartialFailureIsolation ==
  /\ \A r \in Runs : CallsOf(r, "import") # {} =>
       \A e \in ImportErrors : ~CaughtIn(r, e)
  /\ (pc \in {"returned", "responded"} /\ CallsOf(run, "import") # {}) =>
       /\ returned = Void
       /\ Concat(ImportCalls(run), 1) = documents
  /\ (pc = "index" /\ Len(Concat(ImportCalls(run), 1)) < Len(documents)) =>
       ENABLED ImportBatch
\* of three batches the first had a rejected document, the second failed in
\* transport and the third was accepted
PartialFailureIsolationWitness ==
  /\ pc = "responded"
  /\ Len(ImportCalls(run)) = 3
  /\ ImportCalls(run)[1].reply = "ok"
  /\ ~FullyAccepted(ImportCalls(run)[1])
  /\ ImportCalls(run)[2].reply \in ImportErrors
  /\ FullyAccepted(ImportCalls(run)[3])
  /\ Len(index) = 1

\* C16 (sequential batches): at most one call is in flight, every call
\* before the last one issued has been answered, and the batches issued so
\* far, one after the other, are the first documents in their order.
SequentialBatches ==
  /\ Cardinality(InFlight) <= 1
  /\ \A k \in 1..(Len(calls) - 1) : calls[k].reply # Pending
  /\ Concat(ImportCalls(run), 1) =
       Slice(documents, 0, Len(Concat(ImportCalls(run), 1)))
\* the second batch is in flight after the first was answered
SequentialBatchesWitness ==
  /\ pc = "import"
  /\ Len(ImportCalls(run)) = 2
  /\ ImportCalls(run)[1].reply # Pending
  /\ ImportCalls(run)[2].reply = Pending
  /\ InFlight = {Len(calls)}

\* the number of documents the engine accepted in the calls from the k-th on
RECURSIVE AcceptedCount(_, _)
AcceptedCount(issued, k) ==
  IF k > Len(issued) THEN 0
  ELSE (IF issued[k].reply = "ok"
        THEN Len(Accepted(issued[k].batch, issued[k].results, 1))
        ELSE 0) + AcceptedCount(issued, k + 1)
\* the batches and documents attempted and succeeded in the calls
AggregateCounts(issued) ==
  <<Len(issued),
    Cardinality({k \in 1..Len(issued) : issued[k].reply = "ok"}),
    Len(Concat(issued, 1)),
    AcceptedCount(issued, 1)>>

\* C15 (aggregate report): once indexDocuments is over, what it gave its
\* caller is the report of the batches attempted and succeeded and of the
\* documents attempted and accepted; with batch 2 of 3 failed in transport
\* the report counts batches 1 and 3 and their documents only.
AggregateReport ==
  (pc \in {"returned", "responded"} /\ CallsOf(run, "import") # {}) =>
    returned = Report(AggregateCounts(ImportCalls(run)))

\* the run failed in the schema stage, in the fetch stage, or in neither
FailedStage ==
  IF ensured \in RetrieveErrors \cup CreationErrors THEN "schema"
  ELSE IF \E k \in CallsOf(run, "get") : calls[k].reply \in FetchErrors THEN "fetch"
  ELSE ""

\* C17 (fatal error reporting): when ensureCollectionExists or the fetch has
\* failed, the caller of the run is not given the message of success.
FatalErrorReporting ==
  (pc = "responded" /\ FailedStage # "") => response # InitiatedSuccessfully

\* C18 (fatal abort ordering): a run in which ensureCollectionExists failed
\* has issued no fetch and no upsert call and has classified and transformed
\* nothing; a run in which the fetch failed has issued no upsert call and has
\* classified and transformed nothing; every upsert call comes after a
\* retrieve or create call of its run that succeeded.
FatalAbortOrdering ==
  /\ FailedStage = "schema" =>
       /\ CallsOf(run, "get") = {}
       /\ pc \in {"returned", "responded"}
  /\ FailedStage # "" =>
       /\ CallsOf(run, "import") = {}
       /\ lineNumber = 0
       /\ Len(items) = 0
       /\ cursor = 0
       /\ Len(documents) = 0
  /\ \A k \in 1..Len(calls) :
       calls[k].op = "import" =>
         \E j \in 1..(k - 1) :
           /\ calls[j].run = calls[k].run
           /\ calls[j].op \in {"retrieve", "create"}
           /\ calls[j].reply = "ok"
\* the creation of the missing collection failed and the run of a page with
\* blocks is over
FatalAbortOrderingWitness ==
  /\ pc = "responded"
  /\ ensured \in CreationErrors
  /\ Len(doc) > 0
  /\ Len(calls) = 2

\* the identifiers of the documents held, and the documents held under one
IdsOf(held) == {held[k].id : k \in 1..Len(held)}
HeldUnder(held, id) == {k \in 1..Len(held) : held[k].id = id}
\* the run completed its indexing with every batch accepted
LoadedAll(r) ==
  /\ Len(ImportCalls(r)) > 0
  /\ \A k \in 1..Len(ImportCalls(r)) : FullyAccepted(ImportCalls(r)[k])

\* C19 (idempotent load): after a first run whose batches were all accepted
\* the index holds the identifiers of the documents of that run, one
\* document each; after a second run on the same page whose batches were all
\* accepted it holds the same identifiers, one document each.
IdempotentLoad ==
  /\ (run = 1 /\ returned = Void /\ LoadedAll(1)) =>
       /\ IdsOf(index) = IdsOf(Concat(ImportCalls(1), 1))
       /\ \A id \in IdsOf(index) : Cardinality(HeldUnder(index, id)) = 1
  /\ (run = 2 /\ returned = Void /\ LoadedAll(1) /\ LoadedAll(2)
      /\ Len(Concat(ImportCalls(1), 1)) = Len(documents)) =>
       /\ IdsOf(index) = IdsOf(Concat(ImportCalls(1), 1))
       /\ Len(index) = Cardinality(IdsOf(index))
       /\ \A k \in 1..Len(index) : \E j \in 1..Len(documents) : index[k] = documents[j]
\* two runs have loaded the same two documents, the second a second later
IdempotentLoadWitness ==
  /\ run = 2
  /\ returned = Void
  /\ LoadedAll(1)
  /\ LoadedAll(2)
  /\ Len(documents) = 2
  /\ Len(index) = 2
  /\ index[1].lastIndexedAt = 1

\* the kind of the most specific open level of a context, the article last
MostSpecificOpenLevel(ctx) ==
  IF ctx.subSection # Undefined THEN "SUBSEÇÃO"
  ELSE IF ctx.section # Undefined THEN "SEÇÃO"
  ELSE IF ctx.chapter # Undefined THEN "CAPÍTULO"
  ELSE IF ctx.title # Undefined THEN "TÍTULO"
  ELSE IF ctx.articleNumber # Undefined THEN "Artigo"
  ELSE ""

\* C20 (fallback continuation): a step that processes a block no rule
\* matches, with a text of more than ten characters, leaves the context as it
\* was and, when a level is open, emits an item of the kind of the most
\* specific open level: subsection, section, chapter, title, and article
\* only when none of these is open.
FallbackContinuationStep ==
  (NextBlockMatches("") /\ Len(NextBlockText) > FallbackMinLength) =>
    /\ currentContext' = currentContext
    /\ MostSpecificOpenLevel(currentContext) # "" =>
         /\ Len(items') = Len(items) + 1
         /\ items'[Len(items')].elementType = MostSpecificOpenLevel(currentContext)
FallbackContinuation == [][FallbackContinuationStep]_vars

\* the block of a ParseBlock step, and the step itself
NextBlock == doc[lineNumber + 1]
IsParseBlockStep == pc = "parse" /\ lineNumber < Len(doc) /\ lineNumber' = lineNumber + 1
\* the text starts with the prefix of one of the four boundary rules
HasBoundaryPrefix(text) ==
  \/ StartsWith(text, TituloPrefix)
  \/ StartsWith(text, CapituloPrefix)
  \/ StartsWith(text, SecaoPrefix)
  \/ StartsWith(text, SubsecaoPrefix)
\* the text starts with the prefix of one of the rules that open a title
HasTitlePrefix(text) ==
  \/ StartsWith(text, TituloPrefix)
  \/ IsEmenda(text)
  \/ StartsWithCI(text, AdctPrefix)
  \/ StartsWithCI(text, PreambuloPrefix)
IsCenteredOrBold(b) == b.align = "center" \/ b.bold
BoundaryFields(ctx) == <<ctx.title, ctx.chapter, ctx.section, ctx.subSection>>
\* the step gives the field a value it did not have
IsSetBy(before, after) == after # before /\ after # Undefined

\* C21 (boundary rules need a hint): a step sets the title, chapter, section
\* or subsection field of the context only when the text of its block has
\* the prefix of that level and the block is centered or bold; a block with
\* a boundary prefix that is neither centered nor bold leaves the four
\* boundary fields as they were.
BoundaryNeedsHintStep ==
  IsParseBlockStep =>
    /\ IsSetBy(currentContext.title, currentContext'.title) =>
         HasTitlePrefix(NextBlockText) /\ IsCenteredOrBold(NextBlock)
    /\ IsSetBy(currentContext.chapter, currentContext'.chapter) =>
         StartsWith(NextBlockText, CapituloPrefix) /\ IsCenteredOrBold(NextBlock)
    /\ IsSetBy(currentContext.section, currentContext'.section) =>
         StartsWith(NextBlockText, SecaoPrefix) /\ IsCenteredOrBold(NextBlock)
    /\ IsSetBy(currentContext.subSection, currentContext'.subSection) =>
         StartsWith(NextBlockText, SubsecaoPrefix) /\ IsCenteredOrBold(NextBlock)
    /\ (HasBoundaryPrefix(NextBlockText) /\ ~IsCenteredOrBold(NextBlock)) =>
         BoundaryFields(currentContext') = BoundaryFields(currentContext)
BoundaryNeedsHint == [][BoundaryNeedsHintStep]_vars
\* after a centered title and chapter, 'TÍTULO II' and 'CAPÍTULO I dispõe'
\* without a hint were processed: the second was emitted as continuation
\* text and the context still names the first title and chapter
BoundaryNeedsHintWitness ==
  /\ doc = <<BlockTitulo1, BlockCapitulo1, BlockTitulo2Inline, BlockCapituloInline>>
  /\ lineNumber = 4
  /\ Len(items) = 3
  /\ items[3].text = TextCapituloInline
  /\ currentContext = Context(TextTitulo1, TextCapitulo1, Undefined, Undefined, Undefined)

\* C22 (content blocks and context): a step on a block matched as article,
\* paragraph, item or sub-item leaves the title, chapter, section and
\* subsection fields as they were; on a paragraph, item or sub-item it leaves
\* the whole context as it was; on an article it sets the active article
\* number to the article token of the block, and no step on a block of
\* another kind gives the active article number a value.
ContentKeepsContextStep ==
  IsParseBlockStep =>
    /\ (\E type \in ContentTypes : NextBlockMatches(type)) =>
         BoundaryFields(currentContext') = BoundaryFields(currentContext)
    /\ (\E type \in ContentTypes \ {"Artigo"} : NextBlockMatches(type)) =>
         currentContext' = currentContext
    /\ NextBlockMatches("Artigo") =>
         currentContext'.articleNumber = ArtToken(NextBlockText)
    /\ IsSetBy(currentContext.articleNumber, currentContext'.articleNumber) =>
         NextBlockMatches("Artigo")
ContentKeepsContext == [][ContentKeepsContextStep]_vars
\* an article, then a paragraph, an item and a sub-item: the context is the
\* one the article left, in every snapshot after it
ContentKeepsContextWitness ==
  /\ doc = <<BlockArtigo1, BlockParagrafo1, BlockInciso1, BlockAlineaA>>
  /\ lineNumber = 4
  /\ Len(items) = 4
  /\ currentContext =
       Context(Undefined, Undefined, Undefined, Undefined, ArtToken(TextArtigo1))
  /\ \A k \in 1..4 : items[k].hierarchicalContext = currentContext

\* no rule matches the block of the step and the fallback gives it no type
NoTypeDetermined ==
  /\ ~IsRejected(NextBlock)
  /\ MatchedRule(doc, lineNumber + 1) = ""
  /\ FallbackType(currentContext, NextBlockText) = ""
\* C23 (emission condition): every item emitted has a type of the closed
\* set of element types and a text that is not empty; a step on a block for
\* which no type is determined emits nothing and leaves the parser in its
\* loop, which returns only when the callback has run on every block.
EmittedAreTyped ==
  /\ \A k \in 1..Len(items) :
       items[k].elementType \in ElementTypes /\ items[k].text # <<>>
  /\ pc \in {"parsed", "transform", "transformed"} => lineNumber = Len(doc)
EmissionConditionStep ==
  (IsParseBlockStep /\ NoTypeDetermined) => items' = items /\ pc' = "parse"
EmissionCondition == []EmittedAreTyped /\ [][EmissionConditionStep]_vars
\* 'TÍTULO II' without a hint and with no context open got no type and no
\* item; the centered title after it was emitted
EmissionConditionWitness ==
  /\ PageStartsWith(<<BlockTitulo2Inline, BlockTitulo1>>)
  /\ lineNumber = 2
  /\ Len(items) = 1
  /\ items[1].lineNumber = 2
  /\ items[1].elementType = "TÍTULO"

\* the normalized text is empty, shorter than the minimum length or holds a
\* boilerplate phrase
IsEmptyShortOrBoilerplate(text) ==
  text = <<>> \/ Len(text) < MinTextLength \/ IsBoilerplate(text)
\* C24 (rejected blocks): a step on a block whose text is empty, shorter
\* than the minimum length or boilerplate emits no item and leaves the
\* context exactly as it was.
RejectedBlockFrameStep ==
  (IsParseBlockStep /\ IsEmptyShortOrBoilerplate(NextBlockText)) =>
    items' = items /\ currentContext' = currentContext
RejectedBlockFrame == [][RejectedBlockFrameStep]_vars
\* after a title and an article, a bold centered 'TÍTULO I - Casa Civil' and
\* a blank block were rejected: two items, the context of the article
RejectedBlockFrameWitness ==
  /\ doc = <<BlockTitulo1, BlockArtigo1, BlockTituloCasaCivil, BlockVazio>>
  /\ lineNumber = 4
  /\ Len(items) = 2
  /\ currentContext =
       Context(TextTitulo1, Undefined, Undefined, Undefined, ArtToken(TextArtigo1))

\* C25 (immutability of emitted items): the snapshot of an item is the
\* context right after the callback that emitted it, and no later step of
\* the parser or of the transformer changes a field of an item already
\* emitted.
EmittedItemsFrozenStep ==
  /\ Len(items') >= Len(items)
  /\ \A k \in 1..Len(items) : items'[k] = items[k]
  /\ \A k \in (Len(items) + 1)..Len(items') :
       items'[k].hierarchicalContext = currentContext'
EmittedItemsFrozen == [][EmittedItemsFrozenStep]_vars
\* the transformer has run over a title and a chapter: the title's snapshot
\* still has no chapter, the running context has one
EmittedItemsFrozenWitness ==
  /\ doc = <<BlockTitulo1, BlockCapitulo1, BlockArtigo1>>
  /\ pc = "transformed"
  /\ Len(documents) = 3
  /\ items[1].hierarchicalContext =
       Context(TextTitulo1, Undefined, Undefined, Undefined, Undefined)
  /\ items[2].hierarchicalContext =
       Context(TextTitulo1, TextCapitulo1, Undefined, Undefined, Undefined)
  /\ currentContext.articleNumber = ArtToken(TextArtigo1)

\* the context after the first k elements parseHtmlStream classified, each
\* applied to the context the one before it left
RECURSIVE CarriedContext(_)
CarriedContext(k) ==
  IF k = 0 THEN EmptyContext
  ELSE UpdateContext(CarriedContext(k - 1), results[k].elementType, results[k].text)
\* C26 (streaming context carry): the snapshot of every element the
\* streaming parser classified is the cumulative context of all elements
\* classified before it, in the same chunk or in an earlier one, with its own
\* update applied.
StreamingContextCarry ==
  \A k \in 1..Len(results) : results[k].hierarchicalContext = CarriedContext(k)

\* C27 (streaming sequence counter): over the whole output of one
\* parseHtmlStream call the lineNumbers of the elements are strictly
\* increasing, so no two elements, of the same chunk or of different
\* chunks, share one.
StreamingSequenceCounter ==
  \A j, k \in 1..Len(results) : j < k => results[j].lineNumber < results[k].lineNumber
\* within one chunk the lineNumbers are consecutive from the counter the
\* chunk was entered with
SequenceCounterWithinChunk ==
  \A k \in 1..(Len(results) - 1) :
    results[k + 1].lineNumber <= results[k].lineNumber + 1

\* the bytes of the first k chunks
RECURSIVE YieldedBytes(_)
YieldedBytes(k) == IF k = 0 THEN 0 ELSE YieldedBytes(k - 1) + ByteLength(chunks[k])
\* C28 (streaming progress): onProgress has been called once for each chunk
\* taken, the k-th call with the bytes of the first k chunks and the bytes of
\* the page; the processed value never decreases and never exceeds the
\* total, and the call after the last chunk reports the total.
StreamingProgress ==
  /\ Len(progress) = consumed
  /\ \A k \in 1..Len(progress) :
       /\ progress[k] = <<YieldedBytes(k), ByteLength(htmlContent)>>
       /\ progress[k][1] <= progress[k][2]
  /\ \A k \in 1..(Len(progress) - 1) : progress[k][1] <= progress[k + 1][1]
  /\ (pc = "streamed" /\ Len(chunks) > 0) =>
       progress[Len(progress)][1] = ByteLength(htmlContent)
\* a page read in four chunks: four calls, the first below the total, the
\* last at the total, which counts the two-byte letters twice
StreamingProgressWitness ==
  /\ doc = <<BlockCapitulo1, BlockArtigo1>>
  /\ pc = "streamed"
  /\ Len(chunks) = 4
  /\ Len(progress) = 4
  /\ progress[1][1] < progress[4][1]
  /\ progress[4] = <<ByteLength(htmlContent), ByteLength(htmlContent)>>
  /\ ByteLength(htmlContent) > Len(htmlContent)

\* the position of the article that owns items[k]: the nearest item before
\* it of type Artigo with the article number of its context; 0 when none
OwnerArticle(k) ==
  LET hits == {j \in 1..(k - 1) :
                 /\ items[j].elementType = "Artigo"
                 /\ items[j].hierarchicalContext.articleNumber =
                      items[k].hierarchicalContext.articleNumber}
  IN IF hits = {} THEN 0 ELSE CHOOSE j \in hits : \A h \in hits : h <= j
\* the hierarchical-context text of items[k] with the caption of its owner
OwnerContextText(k, owner) ==
  LET hc == items[k].hierarchicalContext
  IN Join(FilterTruthy(<<hc.title, hc.chapter, hc.section, hc.subSection,
                         IF owner > 0 THEN items[owner].text ELSE <<>> >>), BarSep)
     \o BarSep \o items[k].text
\* C29 (owner article caption): the hierarchical-context text of the
\* document of a paragraph, item or sub-item with an active article number
\* holds, as article caption, the text of the nearest preceding article item
\* with that article number, also when the number occurs more than once.
OwnerArticleCaption ==
  pc = "transformed" =>
    \A k \in 1..Len(items) :
      (/\ items[k].elementType \in {"Parágrafo", "Inciso", "Alínea"}
       /\ items[k].hierarchicalContext.articleNumber # Undefined)
      => \A j \in DocumentsFrom(items[k].lineNumber) :
           documents[j].hierarchicalTextContext = OwnerContextText(k, OwnerArticle(k))
\* the same with the first article item of the document that has the number
FirstArticle(k) ==
  LET hits == {j \in 1..Len(items) :
                 /\ items[j].elementType = "Artigo"
                 /\ items[j].hierarchicalContext.articleNumber =
                      items[k].hierarchicalContext.articleNumber}
  IN IF hits = {} THEN 0 ELSE CHOOSE j \in hits : \A h \in hits : j <= h
FirstArticleCaption ==
  pc = "transformed" =>
    \A k \in 1..Len(items) :
      (/\ items[k].elementType \in {"Parágrafo", "Inciso", "Alínea"}
       /\ items[k].hierarchicalContext.articleNumber # Undefined)
      => \A j \in DocumentsFrom(items[k].lineNumber) :
           documents[j].hierarchicalTextContext = OwnerContextText(k, FirstArticle(k))

\* the ancestor labels active in the context of a boundary item above its
\* own level, in title, chapter, section order
ActiveAncestors(item) ==
  LET hc == item.hierarchicalContext
  IN FilterTruthy(IF item.elementType = "CAPÍTULO" THEN <<hc.title>>
                  ELSE IF item.elementType = "SEÇÃO" THEN <<hc.title, hc.chapter>>
                  ELSE <<hc.title, hc.chapter, hc.section>>)
\* C30 (full reference of boundary kinds): the full reference of the
\* document of a chapter, section or subsection item is the ancestor labels
\* active in its context, in title, chapter, section order, followed by its
\* own text, with nothing in the place of a level that is not active.
BoundaryReference ==
  pc = "transformed" =>
    \A k \in 1..Len(items) :
      items[k].elementType \in {"CAPÍTULO", "SEÇÃO", "SUBSEÇÃO"} =>
        \A j \in DocumentsFrom(items[k].lineNumber) :
          documents[j].fullReference =
            Join(Append(ActiveAncestors(items[k]), items[k].text), CommaSpace)
\* the same for the items all of whose ancestor levels are active
BoundaryReferenceComplete ==
  pc = "transformed" =>
    \A k \in 1..Len(items) :
      (/\ items[k].elementType \in {"CAPÍTULO", "SEÇÃO", "SUBSEÇÃO"}
       /\ Len(ActiveAncestors(items[k])) =
            (IF items[k].elementType = "CAPÍTULO" THEN 1
             ELSE IF items[k].elementType = "SEÇÃO" THEN 2 ELSE 3))
      => \A j \in DocumentsFrom(items[k].lineNumber) :
           documents[j].fullReference =
             Join(Append(ActiveAncestors(items[k]), items[k].text), CommaSpace)

\* the position of the last item before items[k] that is a boundary or a
\* top-level declaration, and of the last article before that one
LastReset(k) == LastOfKind(BoundaryTypes \cup TopLevelTypes, 1, k)
ArticleBeforeReset(k) == LastOfKind({"Artigo"}, 1, LastReset(k))
\* items[k] is a paragraph, item or sub-item with a boundary or declaration
\* and no article between that and itself
FollowsReset(k) ==
  /\ items[k].elementType \in {"Parágrafo", "Inciso", "Alínea"}
  /\ LastReset(k) > 0
  /\ LastOfKind({"Artigo"}, LastReset(k) + 1, k) = 0
\* C31 (active-article reset): the document of a paragraph, item or sub-item
\* that comes after a boundary or a top-level declaration and before the
\* next article has no parent article number, and its full reference does
\* not hold the token of the article before the boundary or declaration.
ActiveArticleReset ==
  pc = "transformed" =>
    \A k \in 1..Len(items) :
      FollowsReset(k) =>
        \A j \in DocumentsFrom(items[k].lineNumber) :
          /\ documents[j].parentArticleNumber = Undefined
          /\ ArticleBeforeReset(k) > 0 =>
               ~Contains(documents[j].fullReference,
                         items[ArticleBeforeReset(k)].hierarchicalContext.articleNumber)
\* the same without the promulgation text among the declarations
ActiveArticleResetButPromulgado ==
  pc = "transformed" =>
    \A k \in 1..Len(items) :
      (FollowsReset(k) /\ items[LastReset(k)].elementType # "TEXTO_CONSTITUCIONAL_PROMULGADO") =>
        \A j \in DocumentsFrom(items[k].lineNumber) :
          /\ documents[j].parentArticleNumber = Undefined
          /\ ArticleBeforeReset(k) > 0 =>
               ~Contains(documents[j].fullReference,
                         items[ArticleBeforeReset(k)].hierarchicalContext.articleNumber)

\* the text has the prefix of the amendment, transitional-provisions or
\* preamble rule
HasDeclarationPrefix(text) ==
  \/ IsEmenda(text)
  \/ StartsWithCI(text, AdctPrefix)
  \/ StartsWithCI(text, PreambuloPrefix)
\* C33 (top-level declarations reset the context): after a step on an
\* accepted block with the prefix of an amendment, of the transitional
\* provisions or of the preamble that is centered or bold, the context is
\* the title set to the block's text and every other field unset.
DeclarationResetsContextStep ==
  (/\ IsParseBlockStep
   /\ ~IsEmptyShortOrBoilerplate(NextBlockText)
   /\ HasDeclarationPrefix(NextBlockText)
   /\ IsCenteredOrBold(NextBlock))
  => /\ currentContext' =
          Context(NextBlockText, Undefined, Undefined, Undefined, Undefined)
     /\ Len(items') = Len(items) + 1
     /\ items'[Len(items')].hierarchicalContext = currentContext'
DeclarationResetsContext == [][DeclarationResetsContextStep]_vars
\* an amendment after a chapter and an article: the context is its title
DeclarationResetsContextWitness ==
  /\ PageStartsWith(<<BlockCapitulo1, BlockArtigo1, BlockEmenda1>>)
  /\ lineNumber = 3
  /\ items[2].hierarchicalContext =
       Context(Undefined, TextCapitulo1, Undefined, Undefined, ArtToken(TextArtigo1))
  /\ items[3].elementType = "EMENDA CONSTITUCIONAL"
  /\ currentContext = Context(TextEmenda1, Undefined, Undefined, Undefined, Undefined)

\* the k-th block is accepted and, classified on its own, emitted with the
\* type of the rule that matches it
EmittedOnItsOwn(k) ==
  /\ ~IsRejected(doc[k])
  /\ MatchedRule(doc, k) # ""
  /\ TextAfterRule(doc, k, MatchedRule(doc, k), NormalizedText(doc[k])) # <<>>
\* C35 (lookahead does not consume): a callback advances the traversal by
\* one block and leaves the page as it is; an article that is empty after
\* its token takes the text of the block right after it, and that block is
\* classified and emitted in its own turn.
LookaheadKeepsBlocks ==
  \A k \in 1..(lineNumber - 1) :
    (pc = "parse" /\ UsesLookahead(doc, k)) =>
      /\ NormalizedText(doc[k + 1]) # <<>> =>
           \E a \in 1..Len(items) :
             /\ items[a].lineNumber = k
             /\ items[a].elementType = "Artigo"
             /\ items[a].text = NormalizedText(doc[k + 1])
      /\ EmittedOnItsOwn(k + 1) =>
           \E n \in 1..Len(items) :
             /\ items[n].lineNumber = k + 1
             /\ items[n].elementType = MatchedRule(doc, k + 1)
             /\ items[n].text =
                  TextAfterRule(doc, k + 1, MatchedRule(doc, k + 1), NormalizedText(doc[k + 1]))
LookaheadStep ==
  (pc = "parse" /\ lineNumber' # lineNumber) =>
    lineNumber' = lineNumber + 1 /\ doc' = doc
LookaheadDoesNotConsume == []LookaheadKeepsBlocks /\ [][LookaheadStep]_vars
\* 'Art. 3º' took 'Art. 1º A República' as its text, and the second block
\* was emitted as the article 'A República'
LookaheadDoesNotConsumeWitness ==
  /\ PageStartsWith(<<BlockArtigo3Bare, BlockArtigo1>>)
  /\ pc = "parse"
  /\ lineNumber = 2
  /\ Len(items) = 2
  /\ items[1].text = TextArtigo1
  /\ items[1].hierarchicalContext.articleNumber = TextArtigo3Bare
  /\ items[2].text = StripArtToken(TextArtigo1)
  /\ items[2].lineNumber = 2

\* C34 (chunking loses nothing): with a chunk size of at least 1 the
\* generator ends, no chunk it yields is empty, what it has yielded
\* followed by its buffer is the text read so far, and once it has ended
\* the chunks in order are the whole text.
ChunksKeepText ==
  /\ chunkSize >= 1
  /\ \A k \in 1..Len(chunks) : Len(chunks[k]) > 0
  /\ generator = "loop" => Join(chunks, <<>>) \o buffer = Slice(htmlContent, 0, position)
  /\ generator = "done" => Join(chunks, <<>>) = htmlContent
ChunkingLosesNothing == []ChunksKeepText /\ <>(generator = "done")
\* a rendered page was cut into several chunks, the last of them the rest
\* of the buffer
ChunkingLosesNothingWitness ==
  /\ generator = "done"
  /\ chunkSize = SmallChunkSize
  /\ Len(chunks) >= 2
  /\ Len(buffer) > 0
  /\ chunks[Len(chunks)] = buffer
  /\ Join(chunks, <<>>) = htmlContent

\* no call of the run was answered with an error the run gives up on
NoCallFailed ==
  \A k \in 1..Len(calls) : calls[k].reply \in {Pending, "ok", ObjectNotFound}
\* C36 (nothing to index): when the parser yields no item the transformer
\* is not called and no import is issued; when the transformer yields no
\* document no import is issued; in both cases the run returns without an
\* error entry and its caller gets the usual message.
NothingToIndexEnd ==
  (NoCallFailed /\ pc \in {"returned", "responded"} /\ Len(documents) = 0) =>
    /\ CallsOf(run, "import") = {}
    /\ errorLog = <<>>
    /\ returned = NotSettled
    /\ Len(items) = 0 => cursor = 0
    /\ pc = "responded" => response = InitiatedSuccessfully
NothingToIndexStep ==
  /\ (pc = "parsed" /\ Len(items) = 0) =>
       pc' = "returned" /\ calls' = calls /\ cursor' = cursor /\ errorLog' = errorLog
  /\ (pc = "transformed" /\ Len(documents) = 0) =>
       pc' = "returned" /\ calls' = calls /\ errorLog' = errorLog
NothingToIndex == []NothingToIndexEnd /\ [][NothingToIndexStep]_vars
\* a page whose only block is a place-and-date line: one item, no document,
\* and the run has answered its caller
NothingToIndexWitness ==
  /\ doc = <<BlockLocalData>>
  /\ pc = "responded"
  /\ Len(items) = 1
  /\ cursor = 2
  /\ Len(documents) = 0
  /\ CallsOf(run, "import") = {}
  /\ response = InitiatedSuccessfully

\* the entries of the cache log that send the run to the source
CacheMisses == SelectSeq(cacheLog, LAMBDA entry : entry \in {CacheMiss, CacheGetError})
\* C38 (cache never fatal): a cache hit gives the page with no request to
\* the source; a miss, and a failed cache read alike, issue exactly one
\* request, whose result is stored unless the cache write fails; neither
\* failure of the cache ends the run or writes to the run's error log.
CacheNeverFatalStep ==
  /\ (pc = "fetch" /\ pc' # pc) =>
       /\ errorLog' = errorLog
       /\ \/ /\ cached
             /\ cacheLog' = Append(cacheLog, CacheHit)
             /\ calls' = calls
             /\ pc' = "parse"
          \/ /\ \/ ~cached /\ cacheLog' = Append(cacheLog, CacheMiss)
                \/ cacheLog' = Append(cacheLog, CacheGetError)
             /\ calls' = Append(calls, Call("get", <<>>))
             /\ pc' = "http"
  /\ (pc = "http" /\ pc' = "parse") =>
       /\ errorLog' = errorLog
       /\ calls' = Reply(Len(calls), "ok", <<>>)
       /\ \/ cached' /\ cacheLog' = Append(cacheLog, CachedHtml)
          \/ cached' = cached /\ cacheLog' = Append(cacheLog, CacheSetError)
CacheNeverFatalRun ==
  /\ Cardinality(CallsOf(run, "get")) = Len(CacheMisses)
  /\ Len(CacheMisses) <= 1
  /\ (\E k \in 1..Len(errorLog) : errorLog[k].entry = CriticalError) =>
       \E k \in 1..Len(calls) : calls[k].reply \notin {Pending, "ok", ObjectNotFound}
CacheNeverFatal == []CacheNeverFatalRun /\ [][CacheNeverFatalStep]_vars
\* the cache held the page, its read failed and so did its write: the page
\* was requested once and the run indexed its documents
CacheNeverFatalWitness ==
  /\ cacheLog = <<CacheGetError, CacheSetError>>
  /\ cached
  /\ Cardinality(CallsOf(run, "get")) = 1
  /\ pc = "responded"
  /\ Len(documents) > 0
  /\ returned = Void
  /\ errorLog = <<>>
\* the cache held the page and gave it: no request was issued
CacheHitWitness ==
  /\ cacheLog = <<CacheHit>>
  /\ CallsOf(run, "get") = {}
  /\ pc = "responded"
  /\ Len(documents) > 0

\* C32 (run termination): every call being answered or failing, and the
\* batch size being at least 1, every run reaches its response; a batch
\* whose import is rejected is logged as that batch's failure and the loop
\* goes on to the next batch.
BatchSizeAtLeastOne == ToNumber(batchSize) >= 1
RejectedBatchStep ==
  (pc = "import" /\ Len(calls') = Len(calls)
                 /\ \E k \in InFlightOf("import") : calls'[k].reply \in ImportErrors) =>
    /\ pc' = "index"
    /\ batchStart' = Plus(batchStart, batchSize)
    /\ Len(errorLog') = Len(errorLog) + 1
    /\ errorLog'[Len(errorLog')].entry = CriticalImportError
    /\ index' = index
RunTermination ==
  /\ []BatchSizeAtLeastOne
  /\ [][RejectedBatchStep]_vars
  /\ <>(pc = "responded")
\* a run whose first batch was rejected imported its second and responded
RunTerminationWitness ==
  /\ pc = "responded"
  /\ Cardinality(CallsOf(run, "import")) >= 2
  /\ \E k \in CallsOf(run, "import") : calls[k].reply \in ImportErrors
  /\ \E k \in CallsOf(run, "import") : calls[k].reply = "ok" /\ k = Len(calls)
  /\ returned = Void
  /\ response = InitiatedSuccessfully

\* the locals of run r, executing or waiting
LocalsOf(r) == IF run = r THEN Locals ELSE other
CreateCalls == {k \in 1..Len(calls) : calls[k].op = "create"}
CreatesAnswered(reply) == {k \in CreateCalls : calls[k].reply = reply}
\* C37 (concurrent ensureIndex): of two runs whose retrieves were both
\* answered not-found, both issue create; at most one create ever succeeds
\* and the collection exists from then on; when the engine rejects the
\* second for the name being taken, exactly one succeeded, the rejected
\* run ends in ensureCollectionExists with no fetch and no import, and the
\* run whose create succeeded goes on.
ConcurrentEnsure ==
  /\ Cardinality(CreatesAnswered("ok")) <= 1
  /\ CreatesAnswered("ok") # {} => exists
  /\ \A r \in {1, 2} :
       /\ (\E k \in CallsOf(r, "retrieve") : calls[k].reply = ObjectNotFound) =>
            Cardinality(CallsOf(r, "create")) = 1
       /\ (\E k \in CallsOf(r, "create") : calls[k].reply = ObjectAlreadyExists) =>
            /\ Cardinality(CreatesAnswered("ok")) = 1
            /\ CreatesAnswered("ok") \cap CallsOf(r, "create") = {}
            /\ LocalsOf(r).ensured = ObjectAlreadyExists
            /\ LocalsOf(r).pc \in {"returned", "responded"}
            /\ CallsOf(r, "get") = {}
            /\ CallsOf(r, "import") = {}
            /\ LocalsOf(r).lineNumber = 0
       /\ (\E k \in CallsOf(r, "create") : calls[k].reply = "ok") =>
            /\ LocalsOf(r).ensured = Resolved
            /\ LocalsOf(r).pc \notin {"ensure", "retrieve", "create"}
            /\ \A k \in 1..Len(errorLog) :
                 errorLog[k].run = r => errorLog[k].entry # FailedToCreate
\* both creates were in flight before either was answered
ConcurrentEnsureStep ==
  (pc = "create" /\ ~exists /\ Cardinality(CreatesAnswered(Pending)) = 2 /\ calls' # calls) =>
    /\ Cardinality(CreatesAnswered(Pending)) = 2
    /\ \/ exists' /\ ensured' = Resolved /\ pc' = "fetch"
       \/ ~exists' /\ pc' = "returned" /\ ensured' \in CreationErrors \ {ObjectAlreadyExists}
ConcurrentEnsureIndex == []ConcurrentEnsure /\ [][ConcurrentEnsureStep]_vars
\* both runs found no collection and both issued create; the first run's
\* create succeeded and it imported its document, the second run's create
\* was rejected and it ended without a fetch
ConcurrentEnsureIndexWitness ==
  /\ Len(calls) >= 4
  /\ calls[1].op = "retrieve" /\ calls[1].reply = ObjectNotFound
  /\ calls[2].op = "retrieve" /\ calls[2].reply = ObjectNotFound
  /\ calls[3].op = "create" /\ calls[4].op = "create"
  /\ calls[3].run # calls[4].run
  /\ \E r \in {1, 2} :
       /\ \E k \in CallsOf(r, "create") : calls[k].reply = ObjectAlreadyExists
       /\ LocalsOf(r).pc = "responded"
       /\ CallsOf(r, "get") = {}
       /\ LocalsOf(3 - r).pc = "responded"
       /\ \E k \in CallsOf(3 - r, "import") : calls[k].reply = "ok"
  /\ exists
  /\ Len(index) = 1

\* the user of that name is in the store with isActive false
Inactive(username) == username \in DOMAIN users /\ ~heap[users[username]].isActive
\* this step is the call of the given operation
IsAuthCall(op) == authCalls' = authCalls + 1 /\ event'.op = op
\* C39 (deactivated users locked out): a login called for a user whose
\* isActive is false is refused with 'Invalid credentials' and signs no
\* token; a token validated for such a user yields no user; createUser
\* called with a username the store has is refused and changes nothing.
LockedOutStep ==
  /\ (IsAuthCall("login") /\ Inactive(event'.username)) =>
       /\ event'.kind = "return"
       /\ event'.result = InvalidCredentials
       /\ tokens' = tokens
       /\ awaiting' = awaiting
       /\ heap' = heap
  /\ (IsAuthCall("validateToken") /\ Inactive(event'.username)) =>
       /\ event'.kind = "return"
       /\ event'.result = Null
  /\ (IsAuthCall("createUser") /\ event'.username \in DOMAIN users) =>
       /\ event'.kind = "return"
       /\ event'.result = UsernameExists
       /\ users' = users
       /\ heap' = heap
       /\ awaiting' = awaiting
       /\ tokens' = tokens
DeactivatedLockedOut == [][LockedOutStep]_vars
\* admin logged in, was deactivated, and the token signed before is refused
DeactivatedLockedOutWitness ==
  /\ Inactive("admin")
  /\ \E payload \in tokens : payload.username = "admin"
  /\ heap[users["admin"]].lastLoginAt # Undefined
  /\ event = Returned(3, "validateToken", "admin", Null)
\* ana was created and deactivated, and a second createUser of that name
\* was refused
CreateExistingWitness ==
  /\ Inactive("ana")
  /\ event = Returned(3, "createUser", "ana", UsernameExists)
====
